---- MODULE Spec2Model ----
(***************************************************************************)
(* Model of the haptic-persist backend (apps/backend): the path resolver,  *)
(* the markdown document store routes and the WebSocket change notifier.   *)
(*                                                                         *)
(* A JavaScript string is a sequence of one-character strings, so that     *)
(* trimming, slash normalisation, splitting, joining and prefix tests are  *)
(* computed the way the code computes them.  The path module is Node's     *)
(* POSIX implementation (path.sep = "/").                                  *)
(***************************************************************************)
EXTENDS Naturals, Sequences, FiniteSets, TLC

\* ------------------------------------------------------------------------
\* Bounds of the model
\* ------------------------------------------------------------------------
MaxRawLen == 5      \* longest raw input string enumerated for the resolver
MaxOps == 2         \* overlapping requests received in one behaviour
NumObservers == 1   \* WebSocket connections that may exist

\* ------------------------------------------------------------------------
\* Characters and strings
\* ------------------------------------------------------------------------
SL == "/"
BS == "\\"
SP == " "
DOT == "."
COLON == ":"

Letters == {"v", "a", "H"}
\* Configuration (process.env): the storage root and the public root name.
VOLUME_PATH == <<SL, "v">>
ROOT_NAME == <<"H">>

RECURSIVE StripLeft(_, _)
StripLeft(s, c) == IF s # <<>> /\ Head(s) = c THEN StripLeft(Tail(s), c) ELSE s

RECURSIVE StripRight(_, _)
StripRight(s, c) ==
  IF s # <<>> /\ s[Len(s)] = c THEN StripRight(SubSeq(s, 1, Len(s) - 1), c) ELSE s

\* String.prototype.trim (the only whitespace of the alphabet is the space)
Trim(s) == StripRight(StripLeft(s, SP), SP)

\* s.replace(/\\/g, '/')
ReplaceBackslashes(s) == [i \in 1..Len(s) |-> IF s[i] = BS THEN SL ELSE s[i]]

\* s.replace(/\/+/g, '/')
RECURSIVE CollapseSlashes(_)
CollapseSlashes(s) ==
  IF Len(s) < 2 THEN s
  ELSE IF s[1] = SL /\ s[2] = SL THEN CollapseSlashes(Tail(s))
  ELSE <<s[1]>> \o CollapseSlashes(Tail(s))

StartsWith(s, p) == Len(s) >= Len(p) /\ SubSeq(s, 1, Len(p)) = p
\* s.split('/'): the pieces between separators, empty pieces included
RECURSIVE SplitAcc(_, _, _)
SplitAcc(s, cur, acc) ==
  IF s = <<>> THEN Append(acc, cur)
  ELSE IF Head(s) = SL THEN SplitAcc(Tail(s), <<>>, Append(acc, cur))
  ELSE SplitAcc(Tail(s), Append(cur, Head(s)), acc)

Split(s) == SplitAcc(s, <<>>, <<>>)

\* .filter((segment) => segment.length > 0)
NonEmpty(segs) == SelectSeq(segs, LAMBDA x : x # <<>>)

\* segs.join('/')
RECURSIVE JoinSegs(_)
JoinSegs(segs) ==
  IF segs = <<>> THEN <<>>
  ELSE IF Len(segs) = 1 THEN segs[1]
  ELSE segs[1] \o <<SL>> \o JoinSegs(Tail(segs))

\* ------------------------------------------------------------------------
\* Node's path module (POSIX)
\* ------------------------------------------------------------------------
\* normalizeString: "." is dropped; ".." removes the last kept segment unless
\* there is none or it is ".." itself, in which case it is kept only when
\* allowAboveRoot.
\* a normalisation that keeps "." and ".." as names and drops only the empty
\* segments
NormalizeSegsKeepDots(segs, allowAboveRoot, res) == res \o NonEmpty(segs)

RECURSIVE NormalizeSegs(_, _, _)
NormalizeSegs(segs, allowAboveRoot, res) ==
  IF segs = <<>> THEN res
  ELSE
    LET x == Head(segs)
        rest == Tail(segs)
    IN IF x = <<>> \/ x = <<DOT>> THEN NormalizeSegs(rest, allowAboveRoot, res)
       ELSE IF x = <<DOT, DOT>> THEN
         IF res # <<>> /\ res[Len(res)] # <<DOT, DOT>>
           THEN NormalizeSegs(rest, allowAboveRoot, SubSeq(res, 1, Len(res) - 1))
         ELSE IF allowAboveRoot
           THEN NormalizeSegs(rest, allowAboveRoot, Append(res, x))
         ELSE NormalizeSegs(rest, allowAboveRoot, res)
       ELSE NormalizeSegs(rest, allowAboveRoot, Append(res, x))

PathIsAbsolute(p) == p # <<>> /\ p[1] = SL

PathNormalize(p) ==
  IF p = <<>> THEN <<DOT>>
  ELSE
    LET isAbsolute == p[1] = SL
        trailingSeparator == p[Len(p)] = SL
        body == JoinSegs(NormalizeSegs(Split(p), ~isAbsolute, <<>>))
    IN IF body = <<>>
         THEN IF isAbsolute THEN <<SL>>
              ELSE IF trailingSeparator THEN <<DOT, SL>> ELSE <<DOT>>
         ELSE (IF isAbsolute THEN <<SL>> ELSE <<>>) \o body
              \o (IF trailingSeparator THEN <<SL>> ELSE <<>>)

\* path.join(...args): the non-empty arguments joined by "/" and normalised
RECURSIVE JoinRaw(_)
JoinRaw(args) ==
  IF args = <<>> THEN <<>>
  ELSE IF Len(args) = 1 THEN args[1]
  ELSE args[1] \o <<SL>> \o JoinRaw(Tail(args))

PathJoin(args) ==
  LET kept == NonEmpty(args)
  IN IF kept = <<>> THEN <<DOT>> ELSE PathNormalize(JoinRaw(kept))

\* path.resolve(from, to) for an absolute `from` (the storage root is
\* configured absolute, so the working directory is never consulted)
PathResolve2(from, to) ==
  LET joined == IF to = <<>> THEN from
                ELSE IF PathIsAbsolute(to) THEN to
                ELSE from \o <<SL>> \o to
  IN <<SL>> \o JoinSegs(NormalizeSegs(Split(joined), FALSE, <<>>))

PathResolve1(p) == PathResolve2(<<SL>>, p)

PathDirname(p) ==
  LET segs == NonEmpty(Split(p))
  IN IF Len(segs) <= 1 THEN (IF PathIsAbsolute(p) THEN <<SL>> ELSE <<DOT>>)
     ELSE (IF PathIsAbsolute(p) THEN <<SL>> ELSE <<>>)
          \o JoinSegs(SubSeq(segs, 1, Len(segs) - 1))

\* ------------------------------------------------------------------------
\* Path resolver
\* ------------------------------------------------------------------------
\* A value received from a request: a string, undefined (absent), or some
\* other truthy non-string value (a number, an object).
StrVal(s) == [t |-> "string", s |-> s]
Undefined == [t |-> "undefined", s |-> <<>>]
OtherVal == [t |-> "other", s |-> <<>>]

\* JavaScript truthiness of a request value (`!filePath`, `if (rawPath)`)
Truthy(v) == v.t = "other" \/ (v.t = "string" /\ v.s # <<>>)

Null == [kind |-> "null"]
\* String.prototype.endsWith
EndsWith(s, p) == Len(s) >= Len(p) /\ SubSeq(s, Len(s) - Len(p) + 1, Len(s)) = p

\* /^[a-zA-Z]:/.test(segment)
HasWindowsDrive(seg) == Len(seg) >= 2 /\ seg[1] \in Letters /\ seg[2] = COLON

prepareOperationPath(rawPath) ==
  IF rawPath.t = "other" THEN Null
  ELSE
    LET trimmed == Trim(rawPath.s)
        normalizedSlashes == CollapseSlashes(ReplaceBackslashes(trimmed))
        cleaned == IF normalizedSlashes # <<SL>> /\ EndsWith(normalizedSlashes, <<SL>>)
                     THEN SubSeq(normalizedSlashes, 1, Len(normalizedSlashes) - 1)
                     ELSE normalizedSlashes
        segments == NonEmpty(Split(cleaned))
        startsWithRoot == StartsWith(cleaned, <<SL>>)
        fsPath == IF startsWithRoot /\ ~HasWindowsDrive(segments[1])
                    THEN PathJoin(<<(<<SL>>)>> \o segments)
                    ELSE PathJoin(segments)
        targetPath == PathNormalize(fsPath)
    IN IF trimmed = <<>> THEN Null
       ELSE IF cleaned = <<>> THEN Null
       ELSE IF cleaned = <<SL>>
         THEN [kind |-> "ok", normalizedPath |-> PathNormalize(<<SL>>),
               original |-> trimmed]
       ELSE IF segments = <<>> THEN Null
       ELSE [kind |-> "ok", normalizedPath |-> targetPath, original |-> trimmed]

volResolved == PathResolve1(VOLUME_PATH)

\* a prefix test that forgets the separator: "/va" passes for the root "/v"
InsideVolumeNoSep(p) == StartsWith(p, volResolved) \/ p = volResolved

\* fsPath.startsWith(volResolved + path.sep) || fsPath === volResolved
InsideVolume(p) == StartsWith(p, volResolved \o <<SL>>) \/ p = volResolved

apiPrefix == <<SL>> \o ROOT_NAME

\* a resolver that takes any path starting with "/<ROOT_NAME>" for the API
\* form, without asking for the separator after the name
resolveFsPathLoosePrefix(rawPath) ==
  LET prepared == prepareOperationPath(rawPath)
  IN IF prepared.kind = "null" THEN Null
     ELSE
       LET normalized == ReplaceBackslashes(prepared.normalizedPath)
           relativeInsideVolume ==
             IF StartsWith(normalized, apiPrefix)
               THEN SubSeq(normalized, Len(apiPrefix) + 1, Len(normalized))
             ELSE IF PathIsAbsolute(normalized) THEN Tail(normalized)
             ELSE normalized
           fsPath == PathResolve2(VOLUME_PATH, relativeInsideVolume)
       IN IF ~StartsWith(normalized, apiPrefix) /\ PathIsAbsolute(normalized)
             /\ InsideVolume(PathResolve1(normalized))
            THEN [kind |-> "ok", normalizedPath |-> prepared.normalizedPath,
                  fsPath |-> PathResolve1(normalized)]
          ELSE IF ~InsideVolume(fsPath) THEN [kind |-> "throw"]
          ELSE [kind |-> "ok", normalizedPath |-> prepared.normalizedPath,
                fsPath |-> fsPath]

resolveFsPathFromApiPath(rawPath) ==
  LET prepared == prepareOperationPath(rawPath)
  IN IF prepared.kind = "null" THEN Null
     ELSE
       LET normalized == ReplaceBackslashes(prepared.normalizedPath)
           absResolved == PathResolve1(normalized)
           absInside == ~(normalized = apiPrefix)
                        /\ ~StartsWith(normalized, apiPrefix \o <<SL>>)
                        /\ PathIsAbsolute(normalized)
                        /\ InsideVolume(absResolved)
           relativeInsideVolume ==
             IF normalized = apiPrefix THEN <<>>
             ELSE IF StartsWith(normalized, apiPrefix \o <<SL>>)
               THEN SubSeq(normalized, Len(apiPrefix) + 2, Len(normalized))
             ELSE IF PathIsAbsolute(normalized) THEN Tail(normalized)
             ELSE normalized
           fsPath == PathResolve2(VOLUME_PATH, relativeInsideVolume)
       IN IF absInside
            THEN [kind |-> "ok", normalizedPath |-> prepared.normalizedPath,
                  fsPath |-> absResolved]
          ELSE IF ~InsideVolume(fsPath) THEN [kind |-> "throw"]
          ELSE [kind |-> "ok", normalizedPath |-> prepared.normalizedPath,
                fsPath |-> fsPath]

\* ------------------------------------------------------------------------
\* The filesystem (fs.promises), keyed by absolute normalised path
\* ------------------------------------------------------------------------
DirNode == [isDir |-> TRUE, content |-> ""]
FileNode(c) == [isDir |-> FALSE, content |-> c]

RootKey == <<SL>>

\* The key the operating system reaches for a path string
FsKey(p) == PathResolve1(p)

\* The proper ancestors of a key, the filesystem root first
AncestorKeys(k) ==
  LET segs == NonEmpty(Split(k))
  IN [i \in 1..Len(segs) |-> <<SL>> \o JoinSegs(SubSeq(segs, 1, i - 1))]

IsUnder(k, d) == k # d /\ \E i \in 1..Len(AncestorKeys(k)) : AncestorKeys(k)[i] = d

BaseName(k) ==
  LET segs == NonEmpty(Split(k))
  IN IF segs = <<>> THEN <<>> ELSE segs[Len(segs)]

\* errno of path resolution: "OK" when the entry exists, ENOTDIR when the walk
\* meets a regular file before the last component, ENOENT otherwise
Lookup(f, k) ==
  IF k \in DOMAIN f THEN "OK"
  ELSE IF \E i \in 1..Len(AncestorKeys(k)) :
            AncestorKeys(k)[i] \in DOMAIN f /\ ~f[AncestorKeys(k)[i]].isDir
    THEN "ENOTDIR"
  ELSE "ENOENT"

FsResult(err, f) == [err |-> err, fs |-> f]

\* fs.mkdir(p) without the recursive option: an existing directory is an
\* error and a missing parent is not created
FsMkdirPlain(f, p) ==
  LET k == FsKey(p)
      parent == FsKey(PathDirname(k))
  IN IF k \in DOMAIN f THEN FsResult("EEXIST", f)
     ELSE IF Lookup(f, parent) # "OK" THEN FsResult(Lookup(f, parent), f)
     ELSE IF ~f[parent].isDir THEN FsResult("ENOTDIR", f)
     ELSE FsResult("OK", [x \in DOMAIN f \cup {k} |->
                            IF x = k THEN DirNode ELSE f[x]])

\* a recursive mkdir that fails on a directory that is already there
FsMkdirExclusive(f, p) ==
  LET k == FsKey(p)
      anc == AncestorKeys(k)
      made == {k} \cup {anc[i] : i \in 1..Len(anc)}
  IN IF k \in DOMAIN f THEN FsResult("EEXIST", f)
     ELSE IF Lookup(f, k) = "ENOTDIR" THEN FsResult("ENOTDIR", f)
     ELSE FsResult("OK", [x \in DOMAIN f \cup made |->
                            IF x \in DOMAIN f THEN f[x] ELSE DirNode])

\* fs.mkdir(p, { recursive: true })
FsMkdirRecursive(f, p) ==
  LET k == FsKey(p)
      anc == AncestorKeys(k)
      made == {k} \cup {anc[i] : i \in 1..Len(anc)}
  IN IF k \in DOMAIN f
       THEN IF f[k].isDir THEN FsResult("OK", f) ELSE FsResult("EEXIST", f)
     ELSE IF Lookup(f, k) = "ENOTDIR" THEN FsResult("ENOTDIR", f)
     ELSE FsResult("OK", [x \in DOMAIN f \cup made |->
                            IF x \in DOMAIN f THEN f[x] ELSE DirNode])

\* open(p, 'w'): O_CREAT | O_TRUNC, the first half of fs.writeFile
FsOpenTrunc(f, p) ==
  LET k == FsKey(p)
      parent == FsKey(PathDirname(k))
  IN IF k \in DOMAIN f
       THEN IF f[k].isDir THEN FsResult("EISDIR", f)
            ELSE FsResult("OK", [f EXCEPT ![k] = FileNode("")])
     ELSE IF Lookup(f, parent) # "OK" THEN FsResult(Lookup(f, parent), f)
     ELSE IF ~f[parent].isDir THEN FsResult("ENOTDIR", f)
     ELSE FsResult("OK", [x \in DOMAIN f \cup {k} |->
                            IF x = k THEN FileNode("") ELSE f[x]])

\* a write that drops its data: the file stays as open() truncated it
FsWriteFdNothing(f, p, data, orphan) == f

\* write(fd, data) at offset 0: the second half of fs.writeFile; the
\* descriptor still names the file unless it was unlinked meanwhile (orphan)
FsWriteFd(f, p, data, orphan) ==
  LET k == FsKey(p)
      \* what a file holding `old` holds once `data` is written at its start
      overlay(old) == IF Len(old) <= Len(data) THEN data
                      ELSE data \o SubSeq(old, Len(data) + 1, Len(old))
  IN IF orphan \/ k \notin DOMAIN f \/ f[k].isDir THEN f
     ELSE [f EXCEPT ![k] = FileNode(overlay(f[k].content))]

\* fs.readFile(p, 'utf8')
FsReadFile(f, p) ==
  LET k == FsKey(p)
  IN IF k \notin DOMAIN f THEN [err |-> Lookup(f, k), data |-> ""]
     ELSE IF f[k].isDir THEN [err |-> "EISDIR", data |-> ""]
     ELSE [err |-> "OK", data |-> f[k].content]

Children(f, k) == {x \in DOMAIN f : x # RootKey /\ FsKey(PathDirname(x)) = k}

\* fs.readdir(p): the set of entry names (their order is the directory's)
FsReaddir(f, p) ==
  LET k == FsKey(p)
  IN IF k \notin DOMAIN f THEN [err |-> Lookup(f, k), names |-> {}]
     ELSE IF ~f[k].isDir THEN [err |-> "ENOTDIR", names |-> {}]
     ELSE [err |-> "OK", names |-> {BaseName(x) : x \in Children(f, k)}]

Without(f, gone) == [x \in DOMAIN f \ gone |-> f[x]]

\* fs.rmdir(p) that ignores the recursive option
FsRmdirPlain(f, p, recursive) ==
  LET k == FsKey(p)
  IN IF k \notin DOMAIN f THEN FsResult(Lookup(f, k), f)
     ELSE IF ~f[k].isDir THEN FsResult("ENOTDIR", f)
     ELSE IF Children(f, k) # {} THEN FsResult("ENOTEMPTY", f)
     ELSE FsResult("OK", Without(f, {k}))

\* fs.rmdir(p, { recursive })
FsRmdir(f, p, recursive) ==
  LET k == FsKey(p)
  IN IF k \notin DOMAIN f THEN FsResult(Lookup(f, k), f)
     ELSE IF ~f[k].isDir THEN FsResult("ENOTDIR", f)
     ELSE IF recursive
       THEN FsResult("OK", Without(f, {x \in DOMAIN f : x = k \/ IsUnder(x, k)}))
     ELSE IF Children(f, k) # {} THEN FsResult("ENOTEMPTY", f)
     ELSE FsResult("OK", Without(f, {k}))

\* fs.unlink(p)
FsUnlink(f, p) ==
  LET k == FsKey(p)
  IN IF k \notin DOMAIN f THEN FsResult(Lookup(f, k), f)
     ELSE IF f[k].isDir THEN FsResult("EISDIR", f)
     ELSE FsResult("OK", Without(f, {k}))


\* Where key x is once the entry `from` has been renamed to `to`
Moved(x, from, to) ==
  IF x = from THEN to
  ELSE IF IsUnder(x, from) THEN to \o SubSeq(x, Len(from) + 1, Len(x))
  ELSE x

\* fs.rename(from, to): the entry and everything below it change place as a
\* unit; an existing file is replaced by a file, an existing empty directory
\* by a directory
FsRename(f, from, to) ==
  LET a == FsKey(from)
      b == FsKey(to)
      parent == FsKey(PathDirname(b))
      kept == {x \in DOMAIN f : x # b}
  IN IF a \notin DOMAIN f THEN FsResult(Lookup(f, a), f)
     ELSE IF a = b THEN FsResult("OK", f)
     ELSE IF a = RootKey \/ IsUnder(b, a) THEN FsResult("EINVAL", f)
     ELSE IF Lookup(f, parent) # "OK" THEN FsResult(Lookup(f, parent), f)
     ELSE IF ~f[parent].isDir THEN FsResult("ENOTDIR", f)
     ELSE IF b \in DOMAIN f /\ f[b].isDir /\ ~f[a].isDir THEN FsResult("EISDIR", f)
     ELSE IF b \in DOMAIN f /\ ~f[b].isDir /\ f[a].isDir THEN FsResult("ENOTDIR", f)
     ELSE IF b \in DOMAIN f /\ Children(f, b) # {} THEN FsResult("ENOTEMPTY", f)
     ELSE FsResult("OK", [k \in {Moved(x, a, b) : x \in kept} |->
                            f[CHOOSE x \in kept : Moved(x, a, b) = k]])

\* ------------------------------------------------------------------------
\* Tree builder
\* ------------------------------------------------------------------------
\* Rank of a character by its code unit, as the default sort compares
CharRankCodeUnit(c) ==
  CASE c = SP -> 0
    [] c = DOT -> 1
    [] c = COLON -> 2
    [] c = "H" -> 3
    [] c = BS -> 4
    [] c = "a" -> 5
    [] c = "v" -> 6
    [] OTHER -> 7

\* Rank of a character in the collation used by localeCompare with
\* sensitivity 'base': whitespace and punctuation before letters, letters in
\* alphabetical order whatever their case.
CharRank(c) ==
  CASE c = SP -> 0
    [] c = COLON -> 1
    [] c = DOT -> 2
    [] c = BS -> 3
    [] c = "a" -> 4
    [] c = "H" -> 5
    [] c = "v" -> 6
    [] OTHER -> 7

\* a.localeCompare(b, undefined, { sensitivity: 'base' }) < 0
RECURSIVE LocaleLess(_, _)
LocaleLess(a, b) ==
  IF b = <<>> THEN FALSE
  ELSE IF a = <<>> THEN TRUE
  ELSE IF CharRank(Head(a)) # CharRank(Head(b)) THEN CharRank(Head(a)) < CharRank(Head(b))
  ELSE LocaleLess(Tail(a), Tail(b))

\* names.sort(localeCompare)
RECURSIVE SortNames(_)
SortNames(S) ==
  IF S = {} THEN <<>>
  ELSE LET m == CHOOSE x \in S : \A y \in S \ {x} : LocaleLess(x, y)
       IN <<m>> \o SortNames(S \ {m})

IsHidden(name) == name # <<>> /\ name[1] = DOT

toApiPath(relativePath) ==
  LET normalized == JoinSegs(NonEmpty(Split(relativePath)))
  IN IF normalized # <<>> THEN <<SL>> \o ROOT_NAME \o <<SL>> \o normalized
     ELSE <<SL>> \o ROOT_NAME

\* buildFileTree(currentDir, relativeDir) on the directory entries f; the
\* result is [err, items], err being the errno of the first readdir that
\* failed
RECURSIVE buildFileTree(_, _, _)
buildFileTree(f, currentDir, relativeDir) ==
  LET listing == FsReaddir(f, currentDir)
      sortedEntries == SortNames(listing.names)
      shown == SelectSeq(sortedEntries, LAMBDA n : ~IsHidden(n))
      absolutePath(n) == PathJoin(<<currentDir, n>>)
      relativePath(n) == IF relativeDir # <<>> THEN PathJoin(<<relativeDir, n>>) ELSE n
      sub(n) == buildFileTree(f, absolutePath(n), relativePath(n))
      item(n) ==
        IF f[FsKey(absolutePath(n))].isDir
          THEN [path |-> toApiPath(relativePath(n)), name |-> n, folder |-> TRUE,
                children |-> sub(n).items]
          ELSE [path |-> toApiPath(relativePath(n)), name |-> n, folder |-> FALSE,
                children |-> <<>>]
  IN IF listing.err # "OK" THEN [err |-> listing.err, items |-> <<>>]
     ELSE IF \E i \in 1..Len(shown) :
               f[FsKey(absolutePath(shown[i]))].isDir /\ sub(shown[i]).err # "OK"
       THEN [err |-> "EIO", items |-> <<>>]
     ELSE [err |-> "OK", items |-> [i \in 1..Len(shown) |-> item(shown[i])]]

\* ------------------------------------------------------------------------
\* State
\* ------------------------------------------------------------------------
VARIABLES
  fs,          \* the filesystem: absolute path -> node
  reqs,        \* the HTTP requests being served, one record per slot
  opsStarted,  \* number of overlapping requests received so far
  overlap,     \* whether requests may be served concurrently
  sendRaises,  \* whether a socket's send may raise
  clients,     \* the registry: connections in insertion order
  obs,         \* per connection: socket state and ws.collection
  rawIn,       \* resolver check: the raw input
  resolved,    \* resolver check: what resolveFsPathFromApiPath gave for it
  reResolved,  \* resolver check: what it gave for the normalizedPath of that
  lastWrite,   \* history: path -> content of the last successful write or
               \* update of it, for the paths not deleted since
  service      \* the client's WebSocketService and the sockets it created

vars == <<fs, reqs, opsStarted, overlap, sendRaises, clients, obs, rawIn, resolved, reResolved, lastWrite, service>>
storeVars == <<fs, reqs, opsStarted, overlap, sendRaises, clients, obs, lastWrite, service>>

NumSlots == 2
Slots == 1..NumSlots
Observers == 1..NumObservers
NotifyObservers == 1..(NumObservers + 1)

OtherCollection == <<"v">>
NoCollection == <<>>

\* What the requests of the behaviour carry
\* (served one at a time; served concurrently; served while sends may raise)
Paths ==
  IF overlap
    THEN { StrVal(<<SL, "H", SL, "a">>), StrVal(<<SL, "H", SL, "a", SL, "a">>) }
  ELSE IF sendRaises
    THEN { StrVal(<<SL, "H", SL, "a">>) }
  ELSE { Undefined, OtherVal,
         StrVal(<<>>), StrVal(<<SP>>),
         StrVal(<<SL>>), StrVal(<<SL, "H">>), StrVal(<<SL, "v">>),
         StrVal(<<SL, "H", SL, "a">>), StrVal(<<"a">>),
         StrVal(<<SL, "H", SL, "a", SL, "a">>),
         StrVal(<<DOT, DOT, SL, "a">>) }
Bodies == IF overlap THEN {"AA", "B"}
          ELSE IF sendRaises THEN {"A"}
          ELSE {"", "A"}

NoResult == [kind |-> "none"]

Idle ==
  [ op |-> "none", pc |-> "idle", path |-> Undefined, markdown |-> "",
    recursive |-> FALSE, fsPath |-> <<>>, normalizedPath |-> <<>>,
    hasPrepared |-> FALSE, isUpdate |-> FALSE, orphan |-> FALSE,
    status |-> 0, error |-> "", result |-> NoResult,
    bc |-> <<>>, sends |-> <<>>, matched |-> {}, present |-> {},
    failing |-> {}, raised |-> FALSE, todo |-> <<>>, view |-> <<>>,
    sys |-> 0, fs0 |-> <<>>, target |-> <<>>, targetNormalized |-> <<>>,
    markdownIsString |-> TRUE, dirPath |-> Undefined ]

InitFs == [k \in {RootKey, volResolved} |-> DirNode]

NoObserver == [state |-> "none", collection |-> NoCollection]

\* new WebSocketService(url): no socket, no subscriber, no timer
NoService ==
  [ ws |-> "null", reconnectAttempts |-> 0, subscribers |-> {}, timers |-> 0,
    detached |-> [connecting |-> 0, open |-> 0, closing |-> 0],
    created |-> 0, disconnected |-> FALSE, closes |-> 0, calls |-> 0,
    event |-> "none" ]

\* The server at rest on one of the volumes `stores` (each with the history of
\* the writes that made it), for the connections `connections`: no request in
\* flight, no connection made.  `concurrent` and `raising` say how the
\* requests of the behaviour are served, `inputs` and `unresolved` are the
\* resolver's input and its result before the call.
InitWith(stores, connections, concurrent, raising, inputs, unresolved) ==
  /\ service = NoService
  /\ \E st \in stores : fs = st.fs /\ lastWrite = st.lastWrite
  /\ reqs = [s \in Slots |-> Idle]
  /\ opsStarted = 0
  /\ clients = <<>>
  /\ obs = [o \in connections |-> NoObserver]
  /\ overlap = concurrent
  /\ sendRaises = raising
  /\ rawIn \in inputs
  /\ resolved = unresolved
  /\ reResolved = unresolved

\* ------------------------------------------------------------------------
\* Change notifier
\* ------------------------------------------------------------------------
ChangeEvent(collection, changeType, path) ==
  [collection |-> collection, changeType |-> changeType, path |-> path]

\* client.readyState === WebSocket.OPEN; a "broken" socket is OPEN, and a
\* send on it raises
ReadyStateOpen(c) == c.state \in {"open", "broken"}

\* a forEach without the readyState test: send is called on every registered
\* connection
TargetsAnyState(cl, ob) == cl

\* clients.forEach: the connections send is called on, in registry order,
\* when none of the calls raises
Targets(cl, ob) == SelectSeq(cl, LAMBDA o : ReadyStateOpen(ob[o]))

\* broadcastChange(collection, changeType, path) called by request r.  The
\* request keeps what was sent: to whom, and the collection the recipient had
\* subscribed to; `matched` is who was connected with a matching subscription,
\* `present` who was connected, `failing` whose send would raise.
broadcastChange(r, cl, ob, collection, changeType, path) ==
  LET evt == ChangeEvent(collection, changeType, path)
      open == Targets(cl, ob)
      \* position in `open` of the first connection whose send raises: the
      \* exception leaves forEach, so the connections after it are not reached
      firstRaise ==
        IF \E i \in 1..Len(open) : ob[open[i]].state = "broken"
          THEN CHOOSE i \in 1..Len(open) :
                 /\ ob[open[i]].state = "broken"
                 /\ \A j \in 1..(i - 1) : ob[open[j]].state # "broken"
          ELSE Len(open) + 1
      to == SubSeq(open, 1, firstRaise - 1)
  IN [r EXCEPT !.bc = Append(@, evt),
               !.sends = @ \o [i \in 1..Len(to) |->
                                 [to |-> to[i], evt |-> evt,
                                  sub |-> ob[to[i]].collection]],
               !.matched = @ \cup {o \in DOMAIN ob :
                                     /\ ReadyStateOpen(ob[o])
                                     /\ \E i \in 1..Len(cl) : cl[i] = o
                                     /\ ob[o].collection = collection},
               !.present = @ \cup {o \in DOMAIN ob :
                                     /\ ReadyStateOpen(ob[o])
                                     /\ \E i \in 1..Len(cl) : cl[i] = o},
               !.failing = @ \cup {o \in DOMAIN ob :
                                     /\ ob[o].state = "broken"
                                     /\ \E i \in 1..Len(cl) : cl[i] = o},
               !.raised = @ \/ Len(to) < Len(Targets(cl, ob))]

\* res.status(status).json(...)
Respond(r, status, error, result) ==
  [r EXCEPT !.pc = "done", !.status = status, !.error = error, !.result = result]

\* The handler's code after broadcastChange: the response of the success, or
\* the handler's catch when a send raised out of the broadcast
Answer(b, status, result, failMsg) ==
  IF b.raised THEN Respond(b, 500, failMsg, NoResult)
  ELSE Respond(b, status, "", result)

\* ------------------------------------------------------------------------
\* Requests
\* ------------------------------------------------------------------------
\* A request is received: the lowest free slot takes it; without overlap it
\* is taken only when no other request is being served.  Overlapping requests
\* are counted and capped by MaxOps; one request at a time needs no cap, the
\* state space being finite without it.
CanStart(s) ==
  /\ opsStarted < MaxOps
  /\ reqs[s].pc = "idle"
  /\ \A t \in Slots : t < s => reqs[t].pc # "idle"
  /\ overlap \/ \A t \in Slots : reqs[t].pc = "idle"

Begin(op, path, markdown, recursive) ==
  [Idle EXCEPT !.op = op, !.path = path, !.markdown = markdown,
               !.recursive = recursive, !.fs0 = fs]

\* The synchronous head shared by the handlers, res being what
\* resolveFsPathFromApiPath gave for the request's path: answer 400 when it
\* returned null, 500 (the handler's catch) when it threw, and otherwise go on
\* to `next`.
Resolve(r, res, invalidMsg, failMsg, next) ==
  IF res.kind = "null" THEN Respond(r, 400, invalidMsg, NoResult)
  ELSE IF res.kind = "throw" THEN Respond(r, 500, failMsg, NoResult)
  ELSE [r EXCEPT !.pc = next, !.fsPath = res.fsPath,
                 !.normalizedPath = res.normalizedPath, !.hasPrepared = TRUE]

\* Handlers that require the path (`if (!filePath)`, `if (!rawPath)`)
StartRequired(r, res, requiredMsg, invalidMsg, failMsg) ==
  IF ~Truthy(r.path) THEN Respond(r, 400, requiredMsg, NoResult)
  ELSE Resolve(r, res, invalidMsg, failMsg, "stat")

\* Handlers that default to the volume root (`if (rawPath) ... else`)
StartOptional(r, res, invalidMsg, failMsg) ==
  IF Truthy(r.path) THEN Resolve(r, res, invalidMsg, failMsg, "stat")
  ELSE [r EXCEPT !.pc = "stat", !.fsPath = volResolved]

Receive(s, r) ==
  /\ reqs' = [reqs EXCEPT ![s] = r]
  /\ opsStarted' = IF overlap THEN opsStarted + 1 ELSE opsStarted
  /\ UNCHANGED <<fs, overlap, sendRaises, clients, obs, rawIn, resolved, reResolved, lastWrite, service>>

Step(s, op, pc) == reqs[s].op = op /\ reqs[s].pc = pc

\* A read-only system call of request s (stat, readdir, readFile) and the
\* code that runs on its result
Continue(s, r) ==
  /\ reqs' = [reqs EXCEPT ![s] = [r EXCEPT !.sys = @ + 1]]
  /\ UNCHANGED <<fs, opsStarted, overlap, sendRaises, clients, obs, rawIn, resolved, reResolved, lastWrite, service>>

\* The history of writes once request r has answered: a successful write or
\* update records its content, a successful delete forgets what it removed
LastWriteAfter(r) ==
  IF ~(r.pc = "done" /\ r.status \in {200, 201}) THEN lastWrite
  ELSE IF r.op \in {"post", "put"}
    THEN [k \in DOMAIN lastWrite \cup {r.fsPath} |->
            IF k = r.fsPath THEN r.markdown ELSE lastWrite[k]]
  ELSE IF r.op = "delete"
    THEN [k \in {x \in DOMAIN lastWrite : x # r.fsPath /\ ~IsUnder(x, r.fsPath)} |->
            lastWrite[k]]
  ELSE IF r.op = "move"
    THEN [k \in {Moved(x, r.fsPath, r.target) : x \in DOMAIN lastWrite} |->
            lastWrite[CHOOSE x \in DOMAIN lastWrite : Moved(x, r.fsPath, r.target) = k]]
  ELSE lastWrite

\* A system call of request s that left the filesystem as f, and the code
\* that runs on its result; the descriptors other requests hold on removed
\* files become orphans
Mutate(s, r, f) ==
  /\ fs' = f
  /\ reqs' = [t \in Slots |->
               IF t = s THEN [r EXCEPT !.sys = @ + 1]
               ELSE IF reqs[t].pc = "write" /\ FsKey(reqs[t].fsPath) \notin DOMAIN f
                 THEN [reqs[t] EXCEPT !.orphan = TRUE]
               ELSE reqs[t]]
  /\ lastWrite' = LastWriteAfter(r)
  /\ UNCHANGED <<opsStarted, overlap, sendRaises, clients, obs, rawIn, resolved, reResolved, service>>

\* ---- POST /markdown ------------------------------------------------------
PostSaveFailed == "Failed to save markdown file"

\* The request bodies carry the paths of `paths` and as `markdown` field the
\* strings of `texts` and, when `untyped`, a field missing or not a string
PostStartFrom(s, paths, texts, untyped) ==
  /\ CanStart(s)
  /\ \E path \in paths,
        markdown \in {[isString |-> TRUE, text |-> m] : m \in texts}
                       \cup (IF untyped THEN {[isString |-> FALSE, text |-> ""]} ELSE {}) :
       \E res \in {resolveFsPathFromApiPath(path)} :
         Receive(s, StartRequired([Begin("post", path, markdown.text, FALSE) EXCEPT
                                     !.markdownIsString = markdown.isString],
                    res, "path is required", "Invalid path provided", PostSaveFailed))

PostStart(s) == PostStartFrom(s, Paths, Bodies, FALSE)

PostStat(s) ==
  /\ Step(s, "post", "stat")
  /\ LET r == reqs[s]
         e == Lookup(fs, FsKey(r.fsPath))
     IN Continue(s, IF e = "OK" THEN [r EXCEPT !.pc = "mkdir", !.isUpdate = TRUE]
                    ELSE IF e = "ENOENT" THEN [r EXCEPT !.pc = "mkdir"]
                    ELSE Respond(r, 500, PostSaveFailed, NoResult))

PostMkdir(s) ==
  /\ Step(s, "post", "mkdir")
  /\ LET r == reqs[s]
         m == FsMkdirRecursive(fs, PathDirname(r.fsPath))
     IN Mutate(s, IF m.err = "OK" THEN [r EXCEPT !.pc = "open"]
                  ELSE Respond(r, 500, PostSaveFailed, NoResult), m.fs)

\* fs.writeFile validates its data before it opens the file: data that is
\* not a string raises ERR_INVALID_ARG_TYPE
PostOpen(s) ==
  /\ Step(s, "post", "open")
  /\ LET r == reqs[s]
         m == IF r.markdownIsString THEN FsOpenTrunc(fs, r.fsPath)
              ELSE FsResult("ERR_INVALID_ARG_TYPE", fs)
     IN Mutate(s, IF m.err = "OK" THEN [r EXCEPT !.pc = "write"]
                  ELSE Respond(r, 500, PostSaveFailed, NoResult), m.fs)

PostWrite(s) ==
  /\ Step(s, "post", "write")
  /\ LET r == reqs[s]
         kind == IF r.isUpdate THEN "updated" ELSE "created"
         b == broadcastChange(r, clients, obs, ROOT_NAME, kind, r.normalizedPath)
     IN Mutate(s, Answer(b, IF r.isUpdate THEN 200 ELSE 201,
                          [kind |-> kind, filename |-> r.normalizedPath,
                           fullPath |-> r.fsPath], PostSaveFailed),
               FsWriteFd(fs, r.fsPath, r.markdown, r.orphan))

\* ---- PUT /markdown -------------------------------------------------------
PutUpdateFailed == "Failed to update markdown file"

PutStart(s) ==
  /\ CanStart(s)
  /\ \E path \in Paths, markdown \in Bodies :
       \E res \in {resolveFsPathFromApiPath(path)} :
         Receive(s, StartRequired(Begin("put", path, markdown, FALSE), res,
                    "path is required", "Invalid path provided", PutUpdateFailed))

\* the update handler announcing the change before it knows the file exists
PutStatAnnouncesFirst(s) ==
  /\ Step(s, "put", "stat")
  /\ LET r == broadcastChange(reqs[s], clients, obs, ROOT_NAME, "updated",
                              reqs[s].normalizedPath)
         e == Lookup(fs, FsKey(r.fsPath))
     IN Continue(s, IF e = "OK" THEN [reqs[s] EXCEPT !.pc = "open"]
                    ELSE IF e = "ENOENT" THEN Respond(r, 404, "File not found", NoResult)
                    ELSE Respond(r, 500, PutUpdateFailed, NoResult))

PutStat(s) ==
  /\ Step(s, "put", "stat")
  /\ LET r == reqs[s]
         e == Lookup(fs, FsKey(r.fsPath))
     IN Continue(s, IF e = "OK" THEN [r EXCEPT !.pc = "open"]
                    ELSE IF e = "ENOENT" THEN Respond(r, 404, "File not found", NoResult)
                    ELSE Respond(r, 500, PutUpdateFailed, NoResult))

PutOpen(s) ==
  /\ Step(s, "put", "open")
  /\ LET r == reqs[s]
         m == IF r.markdownIsString THEN FsOpenTrunc(fs, r.fsPath)
              ELSE FsResult("ERR_INVALID_ARG_TYPE", fs)
     IN Mutate(s, IF m.err = "OK" THEN [r EXCEPT !.pc = "write"]
                  ELSE Respond(r, 500, PutUpdateFailed, NoResult), m.fs)

PutWrite(s) ==
  /\ Step(s, "put", "write")
  /\ LET r == reqs[s]
         b == broadcastChange(r, clients, obs, ROOT_NAME, "updated", r.normalizedPath)
     IN Mutate(s, Answer(b, 200,
                          [kind |-> "updated", filename |-> r.normalizedPath,
                           fullPath |-> r.fsPath], PutUpdateFailed),
               FsWriteFd(fs, r.fsPath, r.markdown, r.orphan))

\* ---- GET /markdown -------------------------------------------------------
GetFailed == "Failed to fetch markdown content"

\* The path echoed for a file: toApiPath of the prepared path without prefix
EchoApiPath(r) ==
  \* preparedPath.normalizedPath.replace(new RegExp(`^/${ROOT_NAME}/?`), '')
  LET np == r.normalizedPath
      stripped ==
        IF StartsWith(np, apiPrefix \o <<SL>>) THEN SubSeq(np, Len(apiPrefix) + 2, Len(np))
        ELSE IF StartsWith(np, apiPrefix) THEN SubSeq(np, Len(apiPrefix) + 1, Len(np))
        ELSE np
  IN IF r.hasPrepared THEN toApiPath(stripped) ELSE toApiPath(<<>>)

GetStartFrom(s, paths) ==
  /\ CanStart(s)
  /\ \E path \in paths :
       \E res \in {resolveFsPathFromApiPath(path)} :
         Receive(s, StartOptional(Begin("get", path, "", FALSE), res,
                    "Invalid path", GetFailed))

GetStart(s) == GetStartFrom(s, Paths)

GetStat(s) ==
  /\ Step(s, "get", "stat")
  /\ LET r == reqs[s]
         k == FsKey(r.fsPath)
         e == Lookup(fs, k)
     IN Continue(s, IF e = "ENOENT" THEN Respond(r, 404, "Path not found", NoResult)
                    ELSE IF e # "OK" THEN Respond(r, 500, GetFailed, NoResult)
                    ELSE IF fs[k].isDir
                      THEN [r EXCEPT !.pc = "tree", !.todo = <<r.fsPath>>,
                                     !.view = [x \in {k} |-> DirNode]]
                    ELSE [r EXCEPT !.pc = "readFile"])

\* The entries of a listing as the traversal keeps them: the Dirent of each
\* name under dir, added to what it has seen so far
Seen(view, f, dir, names) ==
  LET new == {FsKey(PathJoin(<<dir, n>>)) : n \in names}
  IN [k \in DOMAIN view \cup new |->
        IF k \in DOMAIN view THEN view[k]
        ELSE IF f[k].isDir THEN DirNode ELSE FileNode("")]

\* The directories buildFileTree descends into from a listing, in the order
\* of its loop
Descents(f, dir, names) ==
  LET sub == SelectSeq(SortNames(names),
                       LAMBDA n : ~IsHidden(n) /\ f[FsKey(PathJoin(<<dir, n>>))].isDir)
  IN [i \in 1..Len(sub) |-> PathJoin(<<dir, sub[i]>>)]

\* a traversal that takes a directory it cannot read for an empty one
GetTreeSkipsUnreadable(s) ==
  /\ Step(s, "get", "tree")
  /\ \E r \in {reqs[s]} :
       \E dir \in {Head(r.todo)} :
         \E l \in {FsReaddir(fs, dir)} :
           \E seen \in {Seen(r.view, fs, dir, l.names)} :
             \E todo \in {Descents(fs, dir, l.names) \o Tail(r.todo)} :
               Continue(s, IF todo # <<>>
                             THEN [r EXCEPT !.todo = todo, !.view = seen]
                           ELSE Respond([r EXCEPT !.todo = <<>>, !.view = <<>>],
                                        200, "",
                                        [kind |-> "tree",
                                         items |-> buildFileTree(seen, r.fsPath, <<>>).items]))

\* One `await fs.readdir` of buildFileTree and the code up to the next one:
\* the traversal is depth-first, `todo` holding the directories still to be
\* read and `view` the entries the listings gave.  A failed readdir is
\* rethrown up to the handler's catch; after the last one the tree is what
\* buildFileTree makes of the listings.
GetTree(s) ==
  /\ Step(s, "get", "tree")
  /\ \E r \in {reqs[s]} :
       \E dir \in {Head(r.todo)} :
         \E l \in {FsReaddir(fs, dir)} :
           \E seen \in {Seen(r.view, fs, dir, l.names)} :
             \E todo \in {Descents(fs, dir, l.names) \o Tail(r.todo)} :
               Continue(s, IF l.err # "OK" THEN Respond(r, 500, GetFailed, NoResult)
                           ELSE IF todo # <<>>
                             THEN [r EXCEPT !.todo = todo, !.view = seen]
                           ELSE Respond([r EXCEPT !.todo = <<>>, !.view = <<>>],
                                        200, "",
                                        [kind |-> "tree",
                                         items |-> buildFileTree(seen, r.fsPath, <<>>).items]))

GetReadFile(s) ==
  /\ Step(s, "get", "readFile")
  /\ LET r == reqs[s]
         d == FsReadFile(fs, r.fsPath)
     IN Continue(s, IF d.err # "OK" THEN Respond(r, 500, GetFailed, NoResult)
                    ELSE Respond(r, 200, "",
                                 [kind |-> "file", path |-> EchoApiPath(r),
                                  name |-> BaseName(r.fsPath), content |-> d.data]))

\* ---- GET /markdown/content -----------------------------------------------
ContentStart(s) ==
  /\ CanStart(s)
  /\ \E path \in Paths :
       \E res \in {resolveFsPathFromApiPath(path)} :
         Receive(s, StartRequired(Begin("content", path, "", FALSE), res,
                    "Path parameter is required", "Invalid path", GetFailed))

ContentStat(s) ==
  /\ Step(s, "content", "stat")
  /\ LET r == reqs[s]
         k == FsKey(r.fsPath)
         e == Lookup(fs, k)
     IN Continue(s, IF e = "ENOENT" THEN Respond(r, 404, "File not found", NoResult)
                    ELSE IF e # "OK" THEN Respond(r, 500, GetFailed, NoResult)
                    ELSE IF fs[k].isDir
                      THEN Respond(r, 400, "Path points to a directory, not a file",
                                   NoResult)
                    ELSE [r EXCEPT !.pc = "readFile"])

ContentReadFile(s) ==
  /\ Step(s, "content", "readFile")
  /\ LET r == reqs[s]
         d == FsReadFile(fs, r.fsPath)
     IN Continue(s, IF d.err # "OK" THEN Respond(r, 500, GetFailed, NoResult)
                    ELSE Respond(r, 200, "",
                                 [kind |-> "file", path |-> EchoApiPath(r),
                                  name |-> BaseName(r.fsPath), content |-> d.data]))

\* ---- GET /markdown/names -------------------------------------------------
NamesFailed == "Failed to fetch names"

NamesStartFrom(s, paths) ==
  /\ CanStart(s)
  /\ \E path \in paths :
       \E res \in {resolveFsPathFromApiPath(path)} :
         Receive(s, StartOptional(Begin("names", path, "", FALSE), res,
                    "Invalid path", NamesFailed))

NamesStart(s) == NamesStartFrom(s, Paths)

NamesStat(s) ==
  /\ Step(s, "names", "stat")
  /\ LET r == reqs[s]
         k == FsKey(r.fsPath)
         e == Lookup(fs, k)
     IN Continue(s, IF e = "ENOENT" THEN Respond(r, 404, "Path not found", NoResult)
                    ELSE IF e # "OK" THEN Respond(r, 500, NamesFailed, NoResult)
                    ELSE IF ~fs[k].isDir
                      THEN Respond(r, 400, "Path must point to a directory", NoResult)
                    ELSE [r EXCEPT !.pc = "readdir"])

NamesReaddir(s) ==
  /\ Step(s, "names", "readdir")
  /\ LET r == reqs[s]
         d == FsReaddir(fs, r.fsPath)
         names == SelectSeq(SortNames({n \in d.names : ~IsHidden(n)}), LAMBDA n : TRUE)
     IN Continue(s, IF d.err # "OK" THEN Respond(r, 500, NamesFailed, NoResult)
                    ELSE Respond(r, 200, "", [kind |-> "names", names |-> names]))

\* ---- POST /markdown/folder -----------------------------------------------
FolderFailed == "Failed to create directory"

FolderStartFrom(s, paths) ==
  /\ CanStart(s)
  /\ \E path \in paths :
       \E res \in {resolveFsPathFromApiPath(path)} :
         Receive(s, StartRequired(Begin("folder", path, "", FALSE), res,
                    "path is required", "Invalid path provided", FolderFailed))

FolderStart(s) == FolderStartFrom(s, Paths)

\* the folder handler reporting every existing entry as a directory
FolderStatOneMessage(s) ==
  /\ Step(s, "folder", "stat")
  /\ LET r == reqs[s]
         k == FsKey(r.fsPath)
         e == Lookup(fs, k)
     IN Continue(s, IF e = "ENOENT" THEN [r EXCEPT !.pc = "mkdir"]
                    ELSE IF e # "OK" THEN Respond(r, 500, FolderFailed, NoResult)
                    ELSE Respond(r, 409, "Directory already exists", NoResult))

FolderStat(s) ==
  /\ Step(s, "folder", "stat")
  /\ LET r == reqs[s]
         k == FsKey(r.fsPath)
         e == Lookup(fs, k)
     IN Continue(s, IF e = "ENOENT" THEN [r EXCEPT !.pc = "mkdir"]
                    ELSE IF e # "OK" THEN Respond(r, 500, FolderFailed, NoResult)
                    ELSE IF fs[k].isDir
                      THEN Respond(r, 409, "Directory already exists", NoResult)
                    ELSE Respond(r, 409, "A file with the same name already exists",
                                 NoResult))

FolderMkdir(s) ==
  /\ Step(s, "folder", "mkdir")
  /\ LET r == reqs[s]
         m == FsMkdirRecursive(fs, r.fsPath)
         b == broadcastChange(r, clients, obs, ROOT_NAME, "created", r.normalizedPath)
     IN Mutate(s, IF m.err # "OK" THEN Respond(r, 500, FolderFailed, NoResult)
                  ELSE Answer(b, 201,
                          [kind |-> "created", filename |-> r.normalizedPath,
                           fullPath |-> r.fsPath], FolderFailed),
               m.fs)

\* ---- DELETE /markdown ----------------------------------------------------
DeleteFailed == "Failed to delete item"

DeleteStart(s) ==
  /\ CanStart(s)
  /\ \E path \in Paths, recursive \in BOOLEAN :
       \E res \in {resolveFsPathFromApiPath(path)} :
         Receive(s, StartRequired(Begin("delete", path, "", recursive), res,
                    "Path parameter is required", "Invalid path", DeleteFailed))

\* the delete handler without its guard on the storage root
DeleteStatUnguarded(s) ==
  /\ Step(s, "delete", "stat")
  /\ LET r == reqs[s]
         k == FsKey(r.fsPath)
         e == Lookup(fs, k)
     IN Continue(s, IF e = "ENOENT" THEN Respond(r, 404, "Path not found", NoResult)
                    ELSE IF e # "OK" THEN Respond(r, 500, DeleteFailed, NoResult)
                    ELSE IF fs[k].isDir
                      THEN [r EXCEPT !.pc = IF r.recursive THEN "rmdir" ELSE "readdir"]
                    ELSE [r EXCEPT !.pc = "unlink"])

DeleteStat(s) ==
  /\ Step(s, "delete", "stat")
  /\ LET r == reqs[s]
         k == FsKey(r.fsPath)
         e == Lookup(fs, k)
     IN Continue(s, IF e = "ENOENT" THEN Respond(r, 404, "Path not found", NoResult)
                    ELSE IF e # "OK" THEN Respond(r, 500, DeleteFailed, NoResult)
                    ELSE IF r.fsPath = volResolved
                      THEN Respond(r, 403, "Cannot delete root directory", NoResult)
                    ELSE IF fs[k].isDir
                      THEN [r EXCEPT !.pc = IF r.recursive THEN "rmdir" ELSE "readdir"]
                    ELSE [r EXCEPT !.pc = "unlink"])

DeleteReaddir(s) ==
  /\ Step(s, "delete", "readdir")
  /\ LET r == reqs[s]
         d == FsReaddir(fs, r.fsPath)
     IN Continue(s, IF d.err # "OK" THEN Respond(r, 500, DeleteFailed, NoResult)
                    ELSE IF d.names # {}
                      THEN Respond(r, 400, "Directory not empty", NoResult)
                    ELSE [r EXCEPT !.pc = "rmdir"])

DeleteRmdir(s) ==
  /\ Step(s, "delete", "rmdir")
  /\ LET r == reqs[s]
         m == FsRmdir(fs, r.fsPath, r.recursive)
         b == broadcastChange(r, clients, obs, ROOT_NAME, "deleted", r.normalizedPath)
     IN Mutate(s, IF m.err # "OK" THEN Respond(r, 500, DeleteFailed, NoResult)
                  ELSE Answer(b, 200,
                          [kind |-> "deleted", filename |-> r.normalizedPath,
                           fullPath |-> r.fsPath], DeleteFailed),
               m.fs)

DeleteUnlink(s) ==
  /\ Step(s, "delete", "unlink")
  /\ LET r == reqs[s]
         m == FsUnlink(fs, r.fsPath)
         b == broadcastChange(r, clients, obs, ROOT_NAME, "deleted", r.normalizedPath)
     IN Mutate(s, IF m.err # "OK" THEN Respond(r, 500, DeleteFailed, NoResult)
                  ELSE Answer(b, 200,
                          [kind |-> "deleted", filename |-> r.normalizedPath,
                           fullPath |-> r.fsPath], DeleteFailed),
               m.fs)

\* ---- Move / rename -------------------------------------------------------
\* Resolve both paths; InvalidPath when either fails resolution
MoveStart(s) ==
  /\ CanStart(s)
  /\ \E source, target \in
          { StrVal(<<SL, "H", SL, "a">>), StrVal(<<SL, "H", SL, "v">>),
            StrVal(<<SL, "H", SL, "a", SL, "a">>), StrVal(<<SP>>) } :
       \E from \in {resolveFsPathFromApiPath(source)},
          to \in {resolveFsPathFromApiPath(target)} :
         Receive(s, IF from.kind # "ok" \/ to.kind # "ok"
                      THEN Respond(Begin("move", source, "", FALSE), 400,
                                   "Invalid path", NoResult)
                    ELSE [Begin("move", source, "", FALSE) EXCEPT
                            !.pc = "stat", !.fsPath = from.fsPath,
                            !.normalizedPath = from.normalizedPath,
                            !.hasPrepared = TRUE, !.target = to.fsPath,
                            !.targetNormalized = to.normalizedPath])

\* a move that does not look at the target
MoveStatOverwrites(s) ==
  /\ Step(s, "move", "stat")
  /\ Continue(s, [reqs[s] EXCEPT !.pc = "rename"])

\* If the target already exists, fail with Conflict ("Name conflict")
MoveStat(s) ==
  /\ Step(s, "move", "stat")
  /\ LET r == reqs[s]
     IN Continue(s, IF Lookup(fs, FsKey(r.target)) = "OK"
                      THEN Respond(r, 409, "Name conflict", NoResult)
                    ELSE [r EXCEPT !.pc = "rename"])

\* The atomic rename, and the Updated event carrying the new path
MoveRename(s) ==
  /\ Step(s, "move", "rename")
  /\ LET r == reqs[s]
         m == FsRename(fs, r.fsPath, r.target)
         b == broadcastChange(r, clients, obs, ROOT_NAME, "updated", r.targetNormalized)
     IN Mutate(s, IF m.err = "ENOENT" THEN Respond(r, 404, "Path not found", NoResult)
                  ELSE IF m.err # "OK" THEN Respond(r, 500, "Failed to move item", NoResult)
                  ELSE Answer(b, 200,
                          [kind |-> "moved", filename |-> r.targetNormalized,
                           fullPath |-> r.target], "Failed to move item"),
               m.fs)

\* The response has been sent and the slot is free again
Finish(s) ==
  /\ reqs[s].pc = "done"
  /\ reqs' = [reqs EXCEPT ![s] = Idle]
  /\ UNCHANGED <<fs, opsStarted, overlap, sendRaises, clients, obs, rawIn, resolved, reResolved, lastWrite, service>>

\* ---- WebSocket server ----------------------------------------------------
\* wss.on('connection')
Connect(o) ==
  /\ obs[o].state = "none"
  /\ clients' = Append(clients, o)
  /\ obs' = [obs EXCEPT ![o] = [state |-> "open", collection |-> NoCollection]]
  /\ UNCHANGED <<fs, reqs, opsStarted, overlap, sendRaises, rawIn, resolved, reResolved, lastWrite, service>>

\* What a client may send: a subscribe message naming a collection, a
\* subscribe message without one, a message of another type, or text that is
\* not JSON.
WsMessages ==
  { [json |-> TRUE, type |-> "subscribe", collection |-> ROOT_NAME],
    [json |-> TRUE, type |-> "subscribe", collection |-> OtherCollection],
    [json |-> TRUE, type |-> "subscribe", collection |-> NoCollection],
    [json |-> TRUE, type |-> "ping", collection |-> <<"a">>],
    [json |-> FALSE, type |-> "", collection |-> NoCollection] }

\* a message handler that does not look at the type of the message
OnMessageAnyType(o) ==
  \E m \in WsMessages :
    /\ ReadyStateOpen(obs[o])
    /\ obs' = [obs EXCEPT ![o].collection =
                 IF m.json /\ m.collection # NoCollection THEN m.collection ELSE @]
    /\ UNCHANGED <<fs, reqs, opsStarted, overlap, sendRaises, clients, rawIn, resolved, reResolved, lastWrite, service>>

\* ws.on('message')
OnMessage(o) ==
  \E m \in WsMessages :
    /\ ReadyStateOpen(obs[o])
    /\ obs' = [obs EXCEPT ![o].collection =
                 IF m.json /\ m.type = "subscribe" /\ m.collection # NoCollection
                   THEN m.collection ELSE @]
    /\ UNCHANGED <<fs, reqs, opsStarted, overlap, sendRaises, clients, rawIn, resolved, reResolved, lastWrite, service>>

\* The socket leaves the OPEN state; its 'close' event is still to be handled
SocketClosed(o) ==
  /\ ReadyStateOpen(obs[o])
  /\ obs' = [obs EXCEPT ![o].state = "closed"]
  /\ UNCHANGED <<fs, reqs, opsStarted, overlap, sendRaises, clients, rawIn, resolved, reResolved, lastWrite, service>>

\* The socket stays OPEN but its next send will raise
SendBreaks(o) ==
  /\ sendRaises
  /\ obs[o].state = "open"
  /\ obs' = [obs EXCEPT ![o].state = "broken"]
  /\ UNCHANGED <<fs, reqs, opsStarted, overlap, sendRaises, clients, rawIn, resolved, reResolved, lastWrite, service>>

\* ws.on('error'): clients.delete(ws); the failed socket is closed
OnError(o) ==
  /\ ReadyStateOpen(obs[o])
  /\ clients' = SelectSeq(clients, LAMBDA x : x # o)
  /\ obs' = [obs EXCEPT ![o].state = "closed"]
  /\ UNCHANGED <<fs, reqs, opsStarted, overlap, sendRaises, rawIn, resolved, reResolved, lastWrite, service>>

\* ws.on('close'): clients.delete(ws)
OnClose(o) ==
  /\ obs[o].state = "closed"
  /\ clients' = SelectSeq(clients, LAMBDA x : x # o)
  /\ obs' = [obs EXCEPT ![o] = NoObserver]
  /\ UNCHANGED <<fs, reqs, opsStarted, overlap, sendRaises, rawIn, resolved, reResolved, lastWrite, service>>

\* ------------------------------------------------------------------------
\* WebSocketService (the client)
\* ------------------------------------------------------------------------
\* `service` holds the fields of the object (ws as the state of the socket
\* it refers to, "closed" once that socket has closed), the reconnect
\* timers set and not yet run, and `detached`: how many sockets the object
\* created and no longer refers to are connecting, open, or closing after
\* close().  Their handlers stay attached and call the same object.  The
\* other fields are history: sockets created, whether disconnect() has been
\* called since the caller's last connect(), closes since the last open,
\* calls of each subscriber's callback for the last message of the server,
\* and the last method or handler that ran.
maxReconnectAttempts == 5
MaxSockets == 6
SubscriberIds == {"a"}

ServiceStep(v) ==
  /\ service' = v
  /\ UNCHANGED <<fs, reqs, opsStarted, overlap, sendRaises, clients, obs, rawIn, resolved, reResolved, lastWrite>>

\* this.ws = new WebSocket(this.url): the socket this.ws referred to is not
\* closed and keeps its handlers
connect(v) ==
  [v EXCEPT !.ws = "connecting", !.created = @ + 1,
            !.detached = IF v.ws \in {"connecting", "open"}
                           THEN [@ EXCEPT ![v.ws] = @ + 1] ELSE @]

\* a reconnect with no limit on the attempts
handleReconnectUnbounded(v) ==
  [v EXCEPT !.reconnectAttempts = @ + 1, !.timers = @ + 1]

\* handleReconnect(): setTimeout(() => this.connect(), ...) while attempts
\* are left
handleReconnect(v) ==
  IF v.reconnectAttempts < maxReconnectAttempts
    THEN [v EXCEPT !.reconnectAttempts = @ + 1, !.timers = @ + 1]
  ELSE v

\* The caller calls connect()
ServiceConnect ==
  /\ service.created < MaxSockets
  /\ ServiceStep([connect(service) EXCEPT !.disconnected = FALSE, !.event = "connect"])

\* A reconnect timer runs: this.connect()
ReconnectTimer ==
  /\ service.timers > 0
  /\ service.created < MaxSockets
  /\ ServiceStep([connect([service EXCEPT !.timers = @ - 1]) EXCEPT !.event = "timer"])

\* ws.onopen of the socket this.ws refers to
SocketOnOpen ==
  /\ service.ws = "connecting"
  /\ ServiceStep([service EXCEPT !.ws = "open", !.reconnectAttempts = 0,
                                 !.closes = 0, !.event = "open"])

\* ws.onopen of a socket the object no longer refers to
DetachedOnOpen ==
  /\ service.detached.connecting > 0
  /\ ServiceStep([service EXCEPT !.detached.connecting = @ - 1,
                                 !.detached.open = @ + 1,
                                 !.reconnectAttempts = 0,
                                 !.closes = 0, !.event = "open"])

\* ws.onclose of the socket this.ws refers to: the connection failed (after
\* onerror, which only rejects the promise) or was closed by the server
SocketOnClose ==
  /\ service.ws \in {"connecting", "open"}
  /\ ServiceStep([handleReconnect(service) EXCEPT !.ws = "closed", !.closes = @ + 1,
                                                 !.event = "close"])

\* ws.onclose of a socket the object no longer refers to, among them the
\* socket disconnect() closed
DetachedOnClose(st) ==
  /\ service.detached[st] > 0
  /\ ServiceStep([handleReconnect(service) EXCEPT !.detached[st] = @ - 1,
                                                 !.closes = @ + 1,
                                                 !.event = "close"])

\* disconnect(): this.ws.close(), this.ws = null, this.subscribers.clear()
ServiceDisconnect ==
  /\ service.ws \in {"null", "connecting", "open", "closed"}
  /\ ServiceStep([service EXCEPT
                    !.detached.closing = IF service.ws \in {"connecting", "open"}
                                           THEN @ + 1 ELSE @,
                    !.ws = "null", !.subscribers = {},
                    !.disconnected = TRUE, !.event = "disconnect"])

\* subscribe(id, callback)
ServiceSubscribe(id) ==
  /\ id \in SubscriberIds
  /\ ServiceStep([service EXCEPT !.subscribers = @ \cup {id}, !.event = "subscribe"])

\* unsubscribe(id)
ServiceUnsubscribe(id) ==
  /\ id \in SubscriberIds
  /\ ServiceStep([service EXCEPT !.subscribers = @ \ {id}, !.event = "unsubscribe"])

\* Sockets of the service that are open
OpenSockets(v) == (IF v.ws = "open" THEN 1 ELSE 0) + v.detached.open

\* The server sends one message to every open connection (broadcastChange);
\* ws.onmessage of each passes it to handleMessage, which calls every
\* subscriber
ServerMessage ==
  /\ OpenSockets(service) > 0
  /\ ServiceStep([service EXCEPT
                    !.calls = IF service.subscribers = {} THEN 0
                              ELSE OpenSockets(service),
                    !.event = "message"])

NextService ==
  \/ ServiceConnect \/ ReconnectTimer
  \/ SocketOnOpen \/ DetachedOnOpen
  \/ SocketOnClose \/ (\E st \in {"connecting", "open", "closing"} : DetachedOnClose(st))
  \/ ServiceDisconnect
  \/ (\E id \in SubscriberIds : ServiceSubscribe(id) \/ ServiceUnsubscribe(id))
  \/ ServerMessage

\* ------------------------------------------------------------------------
\* Specifications
\* ------------------------------------------------------------------------
RequestStep(s) ==
  \/ PostStart(s) \/ PostStat(s) \/ PostMkdir(s) \/ PostOpen(s) \/ PostWrite(s)
  \/ PutStart(s) \/ PutStat(s) \/ PutOpen(s) \/ PutWrite(s)
  \/ GetStart(s) \/ GetStat(s) \/ GetTree(s) \/ GetReadFile(s)
  \/ ContentStart(s) \/ ContentStat(s) \/ ContentReadFile(s)
  \/ NamesStart(s) \/ NamesStat(s) \/ NamesReaddir(s)
  \/ FolderStart(s) \/ FolderStat(s) \/ FolderMkdir(s)
  \/ DeleteStart(s) \/ DeleteStat(s) \/ DeleteReaddir(s) \/ DeleteRmdir(s)
  \/ DeleteUnlink(s)
  \/ Finish(s)

ObserverStep(o) ==
  \/ Connect(o) \/ OnMessage(o) \/ SocketClosed(o) \/ OnError(o) \/ OnClose(o)

Next ==
  \/ \E s \in Slots : RequestStep(s)
  \/ \E o \in Observers : ObserverStep(o)

\* The store serving one request at a time
Init == InitWith({[fs |-> InitFs, lastWrite |-> <<>>]}, Observers, FALSE, FALSE, {Undefined}, Null)

Spec == Init /\ [][Next]_vars

\* What the volume holds when the overlapping requests arrive: nothing, a
\* file, or a directory that is empty or holds a file or a directory
PathA == <<SL, "v", SL, "a">>
PathAA == <<SL, "v", SL, "a", SL, "a">>

OverlapStores ==
  LET WithEntries(nodes) ==
        [k \in DOMAIN InitFs \cup DOMAIN nodes |->
           IF k \in DOMAIN nodes THEN nodes[k] ELSE InitFs[k]]
  IN
  { [fs |-> InitFs, lastWrite |-> <<>>],
    [fs |-> WithEntries([k \in {PathA} |-> FileNode("AA")]),
     lastWrite |-> [k \in {PathA} |-> "AA"]],
    [fs |-> WithEntries([k \in {PathA} |-> DirNode]), lastWrite |-> <<>>],
    [fs |-> WithEntries([k \in {PathA, PathAA} |->
                          IF k = PathA THEN DirNode ELSE FileNode("AA")]),
     lastWrite |-> [k \in {PathAA} |-> "AA"]],
    [fs |-> WithEntries([k \in {PathA, PathAA} |-> DirNode]), lastWrite |-> <<>>] }

NextOverlap == \E s \in Slots : RequestStep(s)

\* The store serving requests concurrently
SpecOverlap ==
  InitWith(OverlapStores, Observers, TRUE, FALSE, {Undefined}, Null)
    /\ [][NextOverlap]_vars

\* The handlers that publish (write, update, create-folder and delete) and
\* the connections
NextNotify ==
  \/ \E s \in Slots :
       \/ PostStart(s) \/ PostStat(s) \/ PostMkdir(s) \/ PostOpen(s) \/ PostWrite(s)
       \/ PutStart(s) \/ PutStat(s) \/ PutOpen(s) \/ PutWrite(s)
       \/ FolderStart(s) \/ FolderStat(s) \/ FolderMkdir(s)
       \/ DeleteStart(s) \/ DeleteStat(s) \/ DeleteReaddir(s) \/ DeleteRmdir(s)
       \/ DeleteUnlink(s)
       \/ Finish(s)
  \/ \E o \in NotifyObservers : ObserverStep(o)
  \/ \E o \in NotifyObservers : SendBreaks(o)

\* The notifier and the operations that publish, with one connection more,
\* whose sockets may raise on send; one request is served at a time
SpecNotify ==
  InitWith({[fs |-> InitFs, lastWrite |-> <<>>]}, NotifyObservers, FALSE, TRUE, {Undefined}, Null)
    /\ [][NextNotify]_vars

\* The read operation on every volume of a family of directory states: each
\* of four names, one of them hidden, is absent, a file, an empty directory,
\* a directory of files or a directory of a file and a directory
TopNames == {<<"a">>, <<"H">>, <<"v">>, <<DOT, "a">>}
TreeFs(g) ==
  LET ShapeEntries(shape) ==
        CASE shape = "none" -> {}
          [] shape = "file" -> {[rel |-> <<>>, node |-> FileNode("A")]}
          [] shape = "empty" -> {[rel |-> <<>>, node |-> DirNode]}
          [] shape = "files" -> {[rel |-> <<>>, node |-> DirNode],
                                 [rel |-> <<SL, "v">>, node |-> FileNode("A")],
                                 [rel |-> <<SL, DOT, "a">>, node |-> FileNode("A")]}
          [] shape = "mixed" -> {[rel |-> <<>>, node |-> DirNode],
                                 [rel |-> <<SL, "H">>, node |-> DirNode],
                                 [rel |-> <<SL, "a">>, node |-> FileNode("A")]}
      entries == UNION {{[key |-> volResolved \o <<SL>> \o n \o e.rel, node |-> e.node] :
                           e \in ShapeEntries(g[n])} : n \in TopNames}
  IN [k \in DOMAIN InitFs \cup {e.key : e \in entries} |->
        IF k \in DOMAIN InitFs THEN InitFs[k]
        ELSE (CHOOSE e \in entries : e.key = k).node]

TreePaths == {Undefined, StrVal(<<SL, "H", SL, "a">>), StrVal(<<SL, "H", SL, "a", SL, "a">>)}

InitTree ==
  InitWith({[fs |-> TreeFs(g), lastWrite |-> <<>>] :
              g \in [TopNames -> {"none", "file", "empty", "files", "mixed"}]},
           Observers, FALSE, FALSE, {Undefined}, Null)

NextTree ==
  \E s \in Slots :
       \/ GetStartFrom(s, TreePaths) \/ GetStat(s) \/ GetTree(s) \/ GetReadFile(s)
       \/ NamesStartFrom(s, TreePaths) \/ NamesStat(s) \/ NamesReaddir(s)
       \/ Finish(s)

SpecTree == InitTree /\ [][NextTree]_vars

NextMove ==
  \E s \in Slots :
       \/ MoveStart(s) \/ MoveStat(s) \/ MoveRename(s) \/ Finish(s)

\* The store serving moves, one at a time, on the volumes of OverlapStores
SpecMove ==
  InitWith(OverlapStores, Observers, FALSE, FALSE, {Undefined}, Null)
    /\ [][NextMove]_vars

\* Raw paths and contents of the creations served concurrently on the empty
\* volume: two files of the directory /v/a, which does not exist yet
CreatePaths ==
  { StrVal(<<SL, "H", SL, "a", SL, "a">>), StrVal(<<SL, "H", SL, "a", SL, "v">>) }
NextCreate ==
  \E s \in Slots :
       \/ PostStartFrom(s, CreatePaths, {"A", "B"}, TRUE)
       \/ PostStat(s) \/ PostMkdir(s) \/ PostOpen(s) \/ PostWrite(s)
       \/ FolderStartFrom(s, CreatePaths) \/ FolderStat(s) \/ FolderMkdir(s)
       \/ Finish(s)

SpecCreate ==
  InitWith({[fs |-> InitFs, lastWrite |-> <<>>]}, Observers, TRUE, FALSE, {Undefined}, Null)
    /\ [][NextCreate]_vars

\* The client's service alone, the store at rest
SpecService == Init /\ [][NextService]_vars

\* The resolver on every raw input up to MaxRawLen characters
Pending == [kind |-> "pending"]

\* The API path "/<ROOT_NAME>/a/../v"
ParentInput == StrVal(<<SL>> \o ROOT_NAME \o <<SL, "a", SL, DOT, DOT, SL, "v">>)

ResolveInput ==
  /\ resolved = Pending
  /\ resolved' = resolveFsPathFromApiPath(rawIn)
  /\ UNCHANGED <<storeVars, rawIn, reResolved>>

\* The normalizedPath of a successful resolution is resolved in its turn
ResolveAgain ==
  /\ resolved.kind = "ok"
  /\ reResolved = Pending
  /\ reResolved' = resolveFsPathFromApiPath(StrVal(resolved.normalizedPath))
  /\ UNCHANGED <<storeVars, rawIn, resolved>>

NextResolve == ResolveInput \/ ResolveAgain

SpecResolve ==
  InitWith({[fs |-> InitFs, lastWrite |-> <<>>]}, Observers, FALSE, FALSE,
           {StrVal(x) : x \in UNION {[1..n -> {SL, BS, SP, DOT, COLON} \cup Letters]
                                       : n \in 0..MaxRawLen}}
             \cup {Undefined, OtherVal, ParentInput},
           Pending)
    /\ [][NextResolve]_vars

\* ---- Web client: fetchAllItemNames ----------------------------------------
\* encodeURIComponent on the characters of the paths: '/', ' ', '\' and ':'
\* are escaped, letters and '.' are not
RECURSIVE encodeURIComponent(_)
encodeURIComponent(str) ==
  IF str = <<>> THEN <<>>
  ELSE (CASE Head(str) = SL -> <<"%", "2", "F">>
          [] Head(str) = SP -> <<"%", "2", "0">>
          [] Head(str) = BS -> <<"%", "5", "C">>
          [] Head(str) = COLON -> <<"%", "3", "A">>
          [] OTHER -> <<Head(str)>>) \o encodeURIComponent(Tail(str))

\* The decoding of a query value by the server's query parser
RECURSIVE decodeURIComponent(_)
decodeURIComponent(str) ==
  IF str = <<>> THEN <<>>
  ELSE IF Head(str) = "%" /\ Len(str) >= 3
    THEN (CASE SubSeq(str, 2, 3) = <<"2", "F">> -> <<SL>>
            [] SubSeq(str, 2, 3) = <<"2", "0">> -> <<SP>>
            [] SubSeq(str, 2, 3) = <<"5", "C">> -> <<BS>>
            [] SubSeq(str, 2, 3) = <<"3", "A">> -> <<COLON>>
            [] OTHER -> SubSeq(str, 1, 3)) \o decodeURIComponent(SubSeq(str, 4, Len(str)))
  ELSE <<Head(str)>> \o decodeURIComponent(Tail(str))

\* req.query[name] for the query string `query` (parameter name -> encoded
\* value): undefined when the query has no parameter of that name
QueryParam(query, name) ==
  IF name \in DOMAIN query THEN StrVal(decodeURIComponent(query[name])) ELSE Undefined

\* fetchAllItemNames(dirPath): GET /markdown/names?dirPath=<encoded dirPath>,
\* received by the list-names handler, which reads req.query.path.  The
\* request keeps the argument of the client in `dirPath`; the client returns
\* the body of a 2xx response and throws on any other.
fetchAllItemNames(s) ==
  /\ CanStart(s)
  /\ \E dirPath \in { <<SL>>, <<SL, "H">>, <<SL, "H", SL, "a">>,
                       <<SL, "H", SL, "a", SL, "H">>, <<SL, "H", SL, "v", SP>> } :
       \E query \in {[n \in {"dirPath"} |-> encodeURIComponent(dirPath)]} :
         \E rawPath \in {QueryParam(query, "path")} :
           \E res \in {resolveFsPathFromApiPath(rawPath)} :
             Receive(s, [StartOptional(Begin("names", rawPath, "", FALSE), res,
                                       "Invalid path", NamesFailed)
                           EXCEPT !.dirPath = StrVal(dirPath)])

NextClient ==
  \E s \in Slots :
       \/ fetchAllItemNames(s) \/ NamesStat(s) \/ NamesReaddir(s) \/ Finish(s)

\* The client listing directories of the volumes of InitTree
SpecClient == InitTree /\ [][NextClient]_vars

\* ------------------------------------------------------------------------
\* Properties
\* ------------------------------------------------------------------------
Components(p) == NonEmpty(Split(p))

\* p is the storage root or a strict descendant of it, by whole components
WithinRoot(p) ==
  LET c == Components(p)
      root == Components(VOLUME_PATH)
  IN /\ p = <<SL>> \o JoinSegs(c)
     /\ \A i \in 1..Len(c) : c[i] # <<DOT>> /\ c[i] # <<DOT, DOT>>
     /\ Len(c) >= Len(root)
     /\ SubSeq(c, 1, Len(root)) = root

Answered(s, op) == reqs[s].op = op /\ reqs[s].pc = "done"
Key(s) == FsKey(reqs[s].fsPath)

InvalidPath(r) ==
  /\ r.status = 400
  /\ r.error \in {"path is required", "Path parameter is required",
                  "Invalid path provided", "Invalid path"}

OneEvent(r, changeType) ==
  r.bc = <<ChangeEvent(ROOT_NAME, changeType, r.normalizedPath)>>

AncestorsAreDirs(f, k) ==
  \A i \in 1..Len(AncestorKeys(k)) :
    AncestorKeys(k)[i] \in DOMAIN f /\ f[AncestorKeys(k)[i]].isDir

\* C1: whatever the raw input, resolveFsPathFromApiPath fails (null, or the
\* escape error) or returns an fsPath that is the storage root or a strict
\* descendant of it by whole path components.
C1_Contained == resolved.kind = "ok" => WithinRoot(resolved.fsPath)

\* The sibling-prefix input "/va" against the root "/v" resolves inside it.
C1_Witness ==
  /\ rawIn = StrVal(<<SL, "v", "a">>)
  /\ resolved.kind = "ok"
  /\ resolved.fsPath = <<SL, "v", SL, "v", "a">>

\* C2: a malformed path (non-string, empty, whitespace-only) or one whose
\* resolution escapes the storage root is answered InvalidPath (400) by every
\* operation, never InternalFailure, and no filesystem call is made for it.
Malformed(v) == v.t = "other" \/ (v.t = "string" /\ Trim(v.s) = <<>>)
Escapes(v) == resolveFsPathFromApiPath(v).kind = "throw"

C2_InvalidPathReported ==
  \A s \in Slots :
    (reqs[s].pc = "done" /\ (Malformed(reqs[s].path) \/ Escapes(reqs[s].path)))
      => (InvalidPath(reqs[s]) /\ reqs[s].sys = 0)

MutatingOps == {"post", "put", "folder", "delete"}

EventMatches(r) ==
  /\ Len(r.bc) = 1
  /\ r.bc[1].collection = ROOT_NAME
  /\ r.bc[1].changeType =
       CASE r.op = "post" -> (IF r.status = 201 THEN "created" ELSE "updated")
         [] r.op = "put" -> "updated"
         [] r.op = "folder" -> "created"
         [] r.op = "delete" -> "deleted"

C4_ReadsLastWrite ==
  \A s \in Slots :
    (Answered(s, "content") /\ reqs[s].hasPrepared /\ Key(s) \in DOMAIN lastWrite)
      => /\ reqs[s].status = 200
         /\ reqs[s].result.kind = "file"
         /\ reqs[s].result.content = lastWrite[Key(s)]

C4_Witness ==
  \E s \in Slots :
    /\ Answered(s, "content")
    /\ Key(s) \in DOMAIN lastWrite
    /\ reqs[s].status = 200
    /\ reqs[s].result.content = "A"

ReportsCreated(r) ==
  /\ r.status = 201
  /\ r.result.kind = "created"
  /\ OneEvent(r, "created")
  /\ FsKey(r.fsPath) \in DOMAIN fs
  /\ fs[FsKey(r.fsPath)] = FileNode(r.markdown)
  /\ AncestorsAreDirs(fs, FsKey(r.fsPath))

ReportsUpdated(r) ==
  /\ r.status = 200
  /\ r.result.kind = "updated"
  /\ OneEvent(r, "updated")
  /\ FsKey(r.fsPath) \in DOMAIN fs
  /\ fs[FsKey(r.fsPath)] = FileNode(r.markdown)

\* C5 as claimed: a POST to a resolvable path that does not exist creates the
\* missing directories and the file, reports 'created' and emits Created; a
\* POST to a path that exists replaces its content, reports 'updated' and
\* emits Updated.
C5_WriteCreatesOrUpdates ==
  \A s \in Slots :
    (Answered(s, "post") /\ reqs[s].hasPrepared)
      => IF Key(s) \in DOMAIN reqs[s].fs0 THEN ReportsUpdated(reqs[s])
         ELSE ReportsCreated(reqs[s])

\* C5 as amended: the same for a target that does not exist and lies under no
\* regular file, and for a target that exists as a regular file; the kind
\* reported and the kind of the event agree whenever the write succeeds.
C5_WriteCreatesOrUpdatesFiles ==
  \A s \in Slots :
    (Answered(s, "post") /\ reqs[s].hasPrepared)
      => /\ Lookup(reqs[s].fs0, Key(s)) = "ENOENT" => ReportsCreated(reqs[s])
         /\ (Key(s) \in DOMAIN reqs[s].fs0 /\ ~reqs[s].fs0[Key(s)].isDir)
              => ReportsUpdated(reqs[s])
         /\ reqs[s].status \in {200, 201}
              => (Len(reqs[s].bc) = 1
                  /\ reqs[s].bc[1].changeType = reqs[s].result.kind)

\* A POST created the file and the directory above it that was missing.
C5_Witness ==
  \E s \in Slots :
    /\ Answered(s, "post")
    /\ reqs[s].status = 201
    /\ reqs[s].fsPath = <<SL, "v", SL, "a", SL, "a">>
    /\ <<SL, "v", SL, "a">> \notin DOMAIN reqs[s].fs0
    /\ fs[<<SL, "v", SL, "a">>].isDir

\* C6: a PUT on a resolvable path whose target does not exist fails with
\* NotFound, creates nothing and emits no event; on an existing file it
\* replaces the content and emits exactly one Updated event.
C6_UpdateOnly ==
  \A s \in Slots :
    (Answered(s, "put") /\ reqs[s].hasPrepared)
      => /\ Key(s) \notin DOMAIN reqs[s].fs0
              => (reqs[s].status = 404 /\ fs = reqs[s].fs0 /\ reqs[s].bc = <<>>)
         /\ (Key(s) \in DOMAIN reqs[s].fs0 /\ ~reqs[s].fs0[Key(s)].isDir)
              => ReportsUpdated(reqs[s])

\* C7: a delete whose path resolves to the storage root fails with Forbidden
\* whatever the recursive flag, removes nothing and emits no event; the
\* storage root exists in every reachable state.
C7_RootNeverDeleted ==
  /\ volResolved \in DOMAIN fs /\ fs[volResolved].isDir
  /\ \A s \in Slots :
       (Answered(s, "delete") /\ reqs[s].hasPrepared /\ reqs[s].fsPath = volResolved)
         => /\ reqs[s].status = 403
            /\ fs = reqs[s].fs0
            /\ reqs[s].bc = <<>>

C7_Witness ==
  \E s \in Slots :
    /\ Answered(s, "delete")
    /\ reqs[s].fsPath = volResolved
    /\ reqs[s].recursive
    /\ reqs[s].status = 403
    /\ Children(fs, volResolved) # {}

NonEmptyDir(f, k) == k \in DOMAIN f /\ f[k].isDir /\ Children(f, k) # {}

DeleteNonEmptyOutcome(s) ==
  IF reqs[s].recursive
    THEN /\ reqs[s].status = 200
         /\ \A k \in DOMAIN fs : k # Key(s) /\ ~IsUnder(k, Key(s))
         /\ OneEvent(reqs[s], "deleted")
    ELSE /\ reqs[s].status = 400
         /\ reqs[s].error = "Directory not empty"
         /\ fs = reqs[s].fs0
         /\ reqs[s].bc = <<>>

\* C8 as claimed: delete of a non-empty directory fails with NotEmpty without
\* the recursive flag, removing nothing and emitting nothing; with the flag
\* it succeeds, the directory and its descendants are gone and one Deleted
\* event is emitted.
C8_DeleteNonEmpty ==
  \A s \in Slots :
    (Answered(s, "delete") /\ reqs[s].hasPrepared /\ NonEmptyDir(reqs[s].fs0, Key(s)))
      => DeleteNonEmptyOutcome(s)

\* C8 as amended: the same for a non-empty directory other than the storage
\* root.
C8_DeleteNonEmptyBelowRoot ==
  \A s \in Slots :
    (/\ Answered(s, "delete") /\ reqs[s].hasPrepared
     /\ NonEmptyDir(reqs[s].fs0, Key(s))
     /\ Key(s) # volResolved)
      => DeleteNonEmptyOutcome(s)

C8_Witness ==
  \E s \in Slots :
    /\ Answered(s, "delete")
    /\ NonEmptyDir(reqs[s].fs0, Key(s))
    /\ reqs[s].recursive
    /\ reqs[s].status = 200
    /\ <<SL, "v", SL, "a", SL, "a">> \in DOMAIN reqs[s].fs0
    /\ <<SL, "v", SL, "a">> \notin DOMAIN fs

FolderConflict(s) ==
  /\ reqs[s].status = 409
  /\ reqs[s].error = IF reqs[s].fs0[Key(s)].isDir
                       THEN "Directory already exists"
                       ELSE "A file with the same name already exists"
  /\ fs = reqs[s].fs0
  /\ reqs[s].bc = <<>>

FolderCreated(s) ==
  /\ reqs[s].status = 201
  /\ Key(s) \in DOMAIN fs
  /\ fs[Key(s)].isDir
  /\ AncestorsAreDirs(fs, Key(s))
  /\ OneEvent(reqs[s], "created")

\* C9 as claimed: create-folder on a path that exists fails with Conflict,
\* reported differently for a directory and for a file, leaving the entry
\* untouched and emitting nothing; on a path that does not exist it creates
\* the directory and its missing ancestors and emits one Created event.
C9_CreateFolder ==
  \A s \in Slots :
    (Answered(s, "folder") /\ reqs[s].hasPrepared)
      => IF Key(s) \in DOMAIN reqs[s].fs0 THEN FolderConflict(s) ELSE FolderCreated(s)

\* C9 as amended: the creation half holds for a path that does not exist and
\* lies under no regular file.
C9_CreateFolderNotUnderFile ==
  \A s \in Slots :
    (Answered(s, "folder") /\ reqs[s].hasPrepared)
      => /\ Key(s) \in DOMAIN reqs[s].fs0 => FolderConflict(s)
         /\ Lookup(reqs[s].fs0, Key(s)) = "ENOENT" => FolderCreated(s)

C9_Witness ==
  \E s \in Slots :
    /\ Answered(s, "folder")
    /\ reqs[s].status = 409
    /\ reqs[s].error = "A file with the same name already exists"
    /\ fs[Key(s)] = FileNode("A")

\* C10: broadcastChange sends an event only to the connections whose
\* subscription matches the event's collection, and to every connected one
\* whose subscription matches.
C10_OnlyMatchingSubscribers ==
  \A s \in Slots :
    /\ \A i \in 1..Len(reqs[s].sends) :
         reqs[s].sends[i].sub = reqs[s].sends[i].evt.collection
    /\ \A o \in reqs[s].matched :
         \E i \in 1..Len(reqs[s].sends) : reqs[s].sends[i].to = o

SentTo(r) == {r.sends[i].to : i \in 1..Len(r.sends)}

\* C11: when the send to one observer raises, every other connected observer
\* still receives the event and the operation that published it reports
\* success.
C11_SendFailureIsolated ==
  \A s \in Slots :
    (reqs[s].pc = "done" /\ reqs[s].bc # <<>>)
      => /\ (reqs[s].present \ reqs[s].failing) \subseteq SentTo(reqs[s])
         /\ reqs[s].status \in {200, 201}

Registered(o) == \E i \in 1..Len(clients) : clients[i] = o

\* What request s sends in a step: nothing before, one event, the same for
\* every recipient, no recipient twice, every recipient registered and OPEN
\* when the step began
SendsOnce(s) ==
  LET new == reqs'[s].sends
  IN /\ reqs[s].sends = <<>>
     /\ Len(reqs'[s].bc) = 1
     /\ \A i \in 1..Len(new) :
          /\ new[i].evt = reqs'[s].bc[1]
          /\ Registered(new[i].to)
          /\ ReadyStateOpen(obs[new[i].to])
     /\ \A i, j \in 1..Len(new) : i # j => new[i].to # new[j].to

\* C12: an event is sent at most once to each observer, with the same
\* collection, changeType and path for all, and only to the observers
\* connected when it is published; no later step (a connect in particular)
\* sends it again.
C12_AtMostOnceNoReplay ==
  [][\A s \in Slots :
       (reqs'[s].sends # <<>> /\ reqs'[s].sends # reqs[s].sends) => SendsOnce(s)]_vars

\* An event went to the one observer connected at the time; the observer
\* that connected afterwards did not get it.
C12_Witness ==
  \E s \in Slots :
    /\ reqs[s].pc = "done"
    /\ Len(reqs[s].bc) = 1
    /\ SentTo(reqs[s]) = {1}
    /\ reqs[s].present = {1}
    /\ Registered(2) /\ obs[2].state = "open"

\* The collections a subscribe message can name
Subscribable ==
  {m.collection : m \in {x \in WsMessages :
                           x.json /\ x.type = "subscribe" /\ x.collection # NoCollection}}

\* One step seen from connection o: it enters the registry when it connects
\* and only then, leaves it only when its close or error is handled, is out
\* of it once the close is handled, and while it stays connected its
\* collection changes only to one a subscribe message names, the registry
\* and the socket being left alone by that step.
RegistryStep(o) ==
  /\ (obs[o].state = "none" /\ obs'[o].state # "none") => Registered(o)'
  /\ (~Registered(o) /\ Registered(o)')
       => (obs[o].state = "none" /\ obs'[o].state = "open")
  /\ (Registered(o) /\ ~Registered(o)')
       => (obs'[o].state \in {"none", "closed"} /\ obs'[o].state # obs[o].state)
  /\ (obs[o].state # "none" /\ obs'[o].state = "none") => ~Registered(o)'
  /\ ReadyStateOpen(obs'[o]) => Registered(o)'
  /\ (obs[o].state # "none" /\ obs'[o].state # "none"
        /\ obs'[o].collection # obs[o].collection)
       => /\ obs'[o].collection \in Subscribable
          /\ obs'[o].state = obs[o].state
          /\ clients' = clients

\* C13: an observer is in the registry from its connection until its close
\* or error is handled; once out it is sent nothing; a subscribe message sets
\* its collection and no other message changes its collection or its
\* registration; in every interleaving of connect, subscribe, disconnect and
\* publish.
C13_RegistryLifecycle ==
  [][/\ \A o \in DOMAIN obs : RegistryStep(o)
     /\ \A s \in Slots :
          reqs'[s].sends # reqs[s].sends
            => \A i \in 1..Len(reqs'[s].sends) : Registered(reqs'[s].sends[i].to)]_vars

\* A subscribed observer whose error was handled: out of the registry, and
\* the event published afterwards went to the other observer only.
C13_Witness ==
  \E s \in Slots :
    /\ reqs[s].pc = "done"
    /\ SentTo(reqs[s]) = {2}
    /\ obs[1].state = "closed" /\ obs[1].collection = ROOT_NAME
    /\ ~Registered(1)
    /\ obs[2].collection = OtherCollection

WriteInProgress(k) ==
  \E s \in Slots : reqs[s].pc = "write" /\ FsKey(reqs[s].fsPath) = k

\* Every read-content that succeeds returns a content some write was given
ReadsWholeContent ==
  \A s \in Slots :
    (Answered(s, "content") /\ reqs[s].status = 200)
      => reqs[s].result.content \in Bodies

\* Every file no write is in progress on holds a content some write was given
HoldsWholeContent ==
  \A k \in DOMAIN fs :
    (~fs[k].isDir /\ ~WriteInProgress(k)) => fs[k].content \in Bodies

\* C14: a write replaces the content atomically for readers: a read-content
\* concurrent with writes returns one of the written contents in full, never
\* an empty or partial value, and once concurrent writes to a path have
\* finished the file holds one of their contents in full.
C14_AtomicReplace == ReadsWholeContent /\ HoldsWholeContent

\* C15: resolution is idempotent: when an input resolves to (normalizedPath,
\* fsPath), resolving that normalizedPath succeeds with the same
\* normalizedPath and the same fsPath.
C15_ResolveIdempotent ==
  reResolved # Pending
    => /\ reResolved.kind = "ok"
       /\ reResolved.normalizedPath = resolved.normalizedPath
       /\ reResolved.fsPath = resolved.fsPath

Alphabet == "abcdefghijklmnopqrstuvwxyz"
Capitals == "ABCDEFGHIJKLMNOPQRSTUVWXYZ"

\* Position of a letter in the alphabet whatever its case, 0 for the rest
AlphaPos(c) ==
  IF \E i \in 1..26 : SubSeq(Alphabet, i, i) = c \/ SubSeq(Capitals, i, i) = c
    THEN CHOOSE i \in 1..26 : SubSeq(Alphabet, i, i) = c \/ SubSeq(Capitals, i, i) = c
    ELSE 0

RECURSIVE CaseInsensitiveLeq(_, _)
CaseInsensitiveLeq(a, b) ==
  IF a = <<>> THEN TRUE
  ELSE IF b = <<>> THEN FALSE
  ELSE IF AlphaPos(Head(a)) # AlphaPos(Head(b)) THEN AlphaPos(Head(a)) < AlphaPos(Head(b))
  ELSE CaseInsensitiveLeq(Tail(a), Tail(b))

Visible(dir) == {n \in FsReaddir(fs, dir).names : Head(n) # DOT}

\* items is the tree of directory dir: its visible entries, each once, in
\* case-insensitive ascending order, the folders with the tree of their own
\* directory
RECURSIVE TreeOf(_, _)
TreeOf(items, dir) ==
  /\ {items[i].name : i \in 1..Len(items)} = Visible(dir)
  /\ Len(items) = Cardinality(Visible(dir))
  /\ \A i \in 1..(Len(items) - 1) : CaseInsensitiveLeq(items[i].name, items[i + 1].name)
  /\ \A i \in 1..Len(items) :
       LET child == dir \o <<SL>> \o items[i].name
       IN /\ items[i].folder = fs[child].isDir
          /\ IF items[i].folder THEN TreeOf(items[i].children, child)
             ELSE items[i].children = <<>>

\* Number of directories in the tree of dir, dir included
RECURSIVE VisibleDirs(_)
VisibleDirs(dir) ==
  LET subs == {n \in Visible(dir) : fs[dir \o <<SL>> \o n].isDir}
      count[S \in SUBSET subs] ==
        IF S = {} THEN 0
        ELSE LET n == CHOOSE x \in S : TRUE
             IN VisibleDirs(dir \o <<SL>> \o n) + count[S \ {n}]
  IN 1 + count[subs]

\* C16: buildFileTree returns at every level exactly the entries whose name
\* does not start with a dot, in case-insensitive ascending order of name,
\* each folder carrying the tree of its own directory; it reads the visible
\* directories and no hidden one.
C16_TreeShape ==
  \A s \in Slots :
    (Answered(s, "get") /\ reqs[s].status = 200 /\ reqs[s].result.kind = "tree")
      => /\ TreeOf(reqs[s].result.items, reqs[s].fsPath)
         /\ reqs[s].sys = 1 + VisibleDirs(reqs[s].fsPath)

\* The tree of a root holding the files a and v, the directory H with a
\* file and a directory in it, and a hidden directory that is not empty
C16_Witness ==
  \E s \in Slots :
    /\ Answered(s, "get") /\ reqs[s].status = 200 /\ reqs[s].result.kind = "tree"
    /\ reqs[s].fsPath = volResolved
    /\ Len(reqs[s].result.items) = 3
    /\ reqs[s].result.items[2].name = <<"H">>
    /\ Len(reqs[s].result.items[2].children) = 2
    /\ volResolved \o <<SL, DOT, "a", SL, "a">> \in DOMAIN fs

\* A step of the traversal of request s: when its readdir fails the request
\* is answered 500 without a tree, and a tree is answered only by a step
\* whose readdir succeeded and left no directory to read
TraversalStep(s) ==
  LET l == FsReaddir(fs, Head(reqs[s].todo))
  IN /\ l.err # "OK"
          => /\ reqs'[s].pc = "done"
             /\ reqs'[s].status = 500
             /\ reqs'[s].result = NoResult
     /\ reqs'[s].result # NoResult
          => /\ l.err = "OK"
             /\ Tail(reqs[s].todo) = <<>>
             /\ Descents(fs, Head(reqs[s].todo), l.names) = <<>>

\* C17: buildFileTree fails closed: when the read of any directory of the
\* traversal fails, as for a subdirectory deleted between its listing and
\* the descent into it, the read operation fails and returns no partial tree.
C17_TreeFailsClosed ==
  [][\A s \in Slots :
       (Step(s, "get", "tree") /\ reqs'[s] # reqs[s]) => TraversalStep(s)]_vars

\* A read listed a directory, a delete removed the subdirectory it had
\* still to read, and the read answered 500.
C17_Witness ==
  \E s, t \in Slots :
    /\ Answered(s, "get") /\ reqs[s].status = 500 /\ reqs[s].sys = 3
    /\ reqs[s].result = NoResult
    /\ Answered(t, "delete") /\ reqs[t].status = 200
    /\ reqs[t].fsPath = PathAA
    /\ PathAA \in DOMAIN reqs[s].fs0 /\ PathAA \notin DOMAIN fs

\* names is the listing of directory dir: its visible entry names, each
\* once, in case-insensitive ascending order
NamesOf(names, dir) ==
  /\ {names[i] : i \in 1..Len(names)} = Visible(dir)
  /\ Len(names) = Cardinality(Visible(dir))
  /\ \A i \in 1..(Len(names) - 1) : CaseInsensitiveLeq(names[i], names[i + 1])

\* C18: list-names answers NotFound when the target does not exist and
\* NotADirectory when the target is a file; otherwise, an absent path
\* meaning the root, it answers the non-recursive list of the directory's
\* entry names that do not start with a dot, in case-insensitive ascending
\* order.
C18_ListNames ==
  \A s \in Slots :
    (Answered(s, "names") /\ reqs[s].sys > 0)
      => IF Key(s) \notin DOMAIN fs THEN reqs[s].status = 404
         ELSE IF ~fs[Key(s)].isDir
           THEN reqs[s].status = 400 /\ reqs[s].error = "Path must point to a directory"
         ELSE /\ reqs[s].status = 200
              /\ reqs[s].result.kind = "names"
              /\ NamesOf(reqs[s].result.names, reqs[s].fsPath)

\* The operations that act on an existing target
TargetOps == {"get", "content", "names", "put", "delete"}

\* Request s answers in this step while its target is absent
AnswersOnAbsent(s) ==
  /\ reqs[s].op \in TargetOps
  /\ reqs[s].pc # "done" /\ reqs'[s].pc = "done"
  /\ Key(s) \notin DOMAIN fs

\* C19: read, read-content, list-names, update and delete on a resolvable
\* path whose target is absent answer NotFound (404) and never
\* InternalFailure: for a missing entry, for a path through a regular file,
\* and for an entry removed by another request between the existence probe
\* and the action.
C19_AbsentIsNotFound ==
  [][\A s \in Slots : AnswersOnAbsent(s) => reqs'[s].status = 404]_vars

\* The "." and ".." segments of a path, in order
DotSegments(p) == SelectSeq(Components(p), LAMBDA x : x = <<DOT>> \/ x = <<DOT, DOT>>)

\* The segments of the raw input as the resolver splits it
RawSegments == ReplaceBackslashes(Trim(rawIn.s))

\* C20 as stated: the resolver keeps "." and ".." segments as literal names:
\* the resolved path has the dot segments of the input, and
\* "/<RootName>/a/../v" resolves to <root>/a/../v.
C20_DotSegmentsLiteral ==
  (resolved.kind = "ok" /\ rawIn.t = "string")
    => /\ DotSegments(resolved.fsPath) = DotSegments(RawSegments)
       /\ rawIn = ParentInput
            => resolved.fsPath = volResolved \o <<SL, "a", SL, DOT, DOT, SL, "v">>

\* C20 (amended): the resolver takes "." and ".." segments as navigation: a
\* resolved path has no "." or ".." component, and "/<RootName>/a/../v"
\* resolves to <root>/v.
C20_DotSegmentsNavigate ==
  resolved.kind = "ok"
    => /\ DotSegments(resolved.fsPath) = <<>>
       /\ rawIn = ParentInput => resolved.fsPath = volResolved \o <<SL, "v">>

\* "/<RootName>/a/../v" has been resolved
C20_Witness ==
  /\ rawIn = ParentInput
  /\ resolved.kind = "ok"
  /\ resolved.normalizedPath = <<SL>> \o ROOT_NAME \o <<SL, "v">>
  /\ resolved.fsPath = volResolved \o <<SL, "v">>

TargetKey(s) == FsKey(reqs[s].target)

\* The target t can take the source k: its directory exists and it is not a
\* place inside the source itself
Placeable(f, k, t) ==
  /\ FsKey(PathDirname(t)) \in DOMAIN f
  /\ f[FsKey(PathDirname(t))].isDir
  /\ ~IsUnder(t, k)

\* Filesystem g is f with the entry k, and all below it, at t instead
MovedTo(f, g, k, t) ==
  /\ DOMAIN g = {Moved(x, k, t) : x \in DOMAIN f}
  /\ \A x \in DOMAIN f : g[Moved(x, k, t)] = f[x]

WritesToNewDirectory(s, t) ==
  /\ s # t /\ opsStarted = 2
  /\ reqs[s].op = "post" /\ reqs[t].op = "post"
  /\ reqs[s].hasPrepared /\ reqs[t].hasPrepared
  /\ reqs[s].markdownIsString /\ reqs[t].markdownIsString
  /\ Key(s) # Key(t)
  /\ PathDirname(Key(s)) = PathDirname(Key(t))
  /\ FsKey(PathDirname(Key(s))) \notin DOMAIN reqs[s].fs0
  /\ FsKey(PathDirname(Key(s))) \notin DOMAIN reqs[t].fs0

\* C22: two writes running concurrently to different files under the same
\* directory, which does not exist yet, both succeed and both files exist
\* afterwards with their own content: neither fails because the other
\* created the directory first.
C22_ConcurrentMkdir ==
  \A s, t \in Slots :
    (WritesToNewDirectory(s, t) /\ reqs[s].pc = "done" /\ reqs[t].pc = "done")
      => /\ reqs[s].status = 201 /\ reqs[t].status = 201
         /\ fs[Key(s)] = FileNode(reqs[s].markdown)
         /\ fs[Key(t)] = FileNode(reqs[t].markdown)

\* Both writes have answered, the second having found the directory made
\* by the first
C22_Witness ==
  \E s, t \in Slots :
    /\ WritesToNewDirectory(s, t)
    /\ reqs[s].pc = "done" /\ reqs[t].pc = "done"
    /\ reqs[s].markdown = "A" /\ reqs[t].markdown = "B"
    /\ fs[Key(s)] = FileNode("A") /\ fs[Key(t)] = FileNode("B")

\* Every node of items, the tree of directory dir, carries a path that
\* resolves to the filesystem path of its entry
RECURSIVE NodePathsOf(_, _)
NodePathsOf(items, dir) ==
  \A i \in 1..Len(items) :
    LET entry == dir \o <<SL>> \o items[i].name
        res == resolveFsPathFromApiPath(StrVal(items[i].path))
    IN /\ res.kind = "ok"
       /\ res.fsPath = entry
       /\ items[i].folder => NodePathsOf(items[i].children, entry)

\* C23: in every tree returned by read, of the root or of a subdirectory,
\* each node's path is the virtual path of the entry it describes:
\* resolving it gives the filesystem path of that entry.
C23_NodePathsResolve ==
  \A s \in Slots :
    (Answered(s, "get") /\ reqs[s].status = 200 /\ reqs[s].result.kind = "tree")
      => NodePathsOf(reqs[s].result.items, reqs[s].fsPath)

\* No other request has been served since request s was received
ServedAlone(s) == opsStarted <= 1 /\ \A t \in Slots : t # s => reqs[t].pc = "idle"

\* C24: a write, update, create-folder or delete that reports a failure
\* leaves the filesystem exactly as it was before the call: no intermediate
\* directory has been created and no entry has been removed or changed.
C24_FailureChangesNothing ==
  \A s \in Slots :
    (reqs[s].pc = "done" /\ reqs[s].op \in MutatingOps
       /\ reqs[s].status \notin {200, 201} /\ ServedAlone(s))
      => fs = reqs[s].fs0

\* Request r has announced the creation of its path
AnnouncedCreated(r) ==
  \E i \in 1..Len(r.bc) :
    r.bc[i].changeType = "created" /\ r.bc[i].path = r.normalizedPath

\* C25: under any interleaving of writes and create-folder calls, with no
\* delete between them, a path is announced Created at most once: of two
\* requests that create the same path concurrently at most one reports
\* 'created'.
C25_CreatedOnce ==
  \A s, t \in Slots :
    (s # t /\ reqs[s].op \in {"post", "folder"} /\ reqs[t].op \in {"post", "folder"}
       /\ reqs[s].normalizedPath = reqs[t].normalizedPath)
      => ~(AnnouncedCreated(reqs[s]) /\ AnnouncedCreated(reqs[t]))

\* The update request s takes a step of its handler
UpdateStep(s) == reqs[s].op = "put" /\ reqs'[s].pc # reqs[s].pc

\* C26: under any interleaving with deletes, an update never brings a file
\* into existence: a step of the update handler taken while the target is
\* absent neither creates it nor emits an Updated event.
C26_UpdateNeverCreates ==
  [][\A s \in Slots :
       (UpdateStep(s) /\ Key(s) \notin DOMAIN fs)
         => (Key(s) \notin DOMAIN fs' /\ reqs'[s].bc = <<>>)]_vars

\* <root>/s1/.../sn for the segments segs, the root itself for none
UnderRoot(segs) ==
  IF segs = <<>> THEN volResolved ELSE volResolved \o <<SL>> \o JoinSegs(segs)

\* The raw input is a string of one or more segments that are names ("."
\* and ".." are navigation), and not an absolute path that already lies in
\* the storage root
AddressesEntry ==
  /\ rawIn.t = "string"
  /\ Components(RawSegments) # <<>>
  /\ DotSegments(RawSegments) = <<>>
  /\ ~(PathIsAbsolute(RawSegments) /\ Components(RawSegments)[1] # ROOT_NAME
        /\ InsideVolume(<<SL>> \o JoinSegs(Components(RawSegments))))

\* The segments the input names below the storage root: those after the
\* root name for "/<RootName>/...", all of them for a relative path and for
\* an absolute path outside the root
SegmentsBelowRoot ==
  IF PathIsAbsolute(RawSegments) /\ Components(RawSegments)[1] = ROOT_NAME
    THEN Tail(Components(RawSegments))
  ELSE Components(RawSegments)

C28_NoReconnectAfterDisconnect ==
  [][/\ (service.disconnected /\ service'.created > service.created)
          => service'.event = "connect"
     /\ service'.detached.closing < service.detached.closing
          => service'.timers = service.timers]_vars

\* C29: reconnectAttempts stays between 0 and maxReconnectAttempts and is 0
\* after every open; a close that follows five or more closes with no open
\* between sets no reconnect timer, so without an open at most five
\* reconnects are made.
ReconnectCounted ==
  /\ service.reconnectAttempts \in 0..maxReconnectAttempts
  /\ service.event = "open" => service.reconnectAttempts = 0
  /\ service.reconnectAttempts = IF service.closes < maxReconnectAttempts
                                   THEN service.closes ELSE maxReconnectAttempts

C29_ReconnectBounded ==
  /\ []ReconnectCounted
  /\ [][(service'.closes > service.closes /\ service.closes >= maxReconnectAttempts)
           => service'.timers = service.timers]_vars

\* Six sockets failed one after the other: the first five closes set a
\* timer each, the sixth none
C29_Witness ==
  /\ service.event = "close"
  /\ service.closes = maxReconnectAttempts + 1
  /\ service.reconnectAttempts = maxReconnectAttempts
  /\ service.timers = 0
  /\ service.created = maxReconnectAttempts + 1

\* Sockets of the service whose handlers can still run
LiveSockets(v) ==
  (IF v.ws \in {"connecting", "open"} THEN 1 ELSE 0)
    + v.detached.connecting + v.detached.open + v.detached.closing

\* C30: after any sequence of connect(), disconnect(), socket events and
\* reconnect timers, at most one socket of the service has live handlers,
\* and a message of the server is passed to each subscriber at most once.
C30_OneLiveSocket ==
  /\ LiveSockets(service) <= 1
  /\ service.calls <= 1

\* The directory the client asked about: what its dirPath resolves to
AskedDir(r) == resolveFsPathFromApiPath(r.dirPath)

\* C31: fetchAllItemNames(dirPath) returns the names of the entries of the
\* directory dirPath as the list-names operation lists them: whenever dirPath
\* names a directory of the volume, the call returns (the response is 200)
\* the visible names of that directory, once each, in case-insensitive
\* ascending order.
C31_FetchedNamesAreOfDirPath ==
  \A s \in Slots :
    (/\ Answered(s, "names")
     /\ reqs[s].dirPath # Undefined
     /\ AskedDir(reqs[s]).kind = "ok"
     /\ FsKey(AskedDir(reqs[s]).fsPath) \in DOMAIN fs
     /\ fs[FsKey(AskedDir(reqs[s]).fsPath)].isDir)
      => /\ reqs[s].status = 200
         /\ reqs[s].result.kind = "names"
         /\ NamesOf(reqs[s].result.names, AskedDir(reqs[s]).fsPath)

====
